---- MODULE Spec2Model ----
(***************************************************************************)
(* Model of the SQL structural translator of proc-to-postgres: the text   *)
(* extraction, type mapping, synthesis and validation functions of        *)
(* batch_converter.py, convert_sql_refined.py, convert_sql_adjustments.py *)
(* and final_converter.py.                                                 *)
(*                                                                         *)
(* A text is a sequence of one-character strings, so that Python's        *)
(* substring tests, split, strip, find and the regular expressions of the *)
(* source are computed character by character.  Indices are 1-based; a    *)
(* position of 0 stands for Python's -1 ("not found").                     *)
(***************************************************************************)
EXTENDS Integers, Sequences, FiniteSets, TLC

VARIABLES pc, call, ret, sent, conversion_failures, conversion_results, sql_files, index

vars == <<pc, call, ret, sent, conversion_failures, conversion_results, sql_files, index>>

(***************************************************************************)
(* Bounds of the enumerated inputs.                                        *)
(***************************************************************************)
MaxParams == 2
MaxColumns == 3
MaxTypes == 2
MaxFiles == 1

(***************************************************************************)
(* Python str primitives.                                                  *)
(***************************************************************************)
UpperLetters == <<"A","B","C","D","E","F","G","H","I","J","K","L","M",
                  "N","O","P","Q","R","S","T","U","V","W","X","Y","Z">>
LowerLetters == <<"a","b","c","d","e","f","g","h","i","j","k","l","m",
                  "n","o","p","q","r","s","t","u","v","w","x","y","z">>
Digits == {"0","1","2","3","4","5","6","7","8","9"}

Whitespace == {" ", "\n", "\t", "\r"}

\* min(S) and max(S) of a non-empty set of positions
Min(S) == CHOOSE i \in S : \A j \in S : i <= j

Max(S) == 0 - Min({0 - i : i \in S})

\* the least (greatest) position of S, d when there is none
MinOr(S, d) == IF S = {} THEN d ELSE Min(S)

MaxOr(S, d) == IF S = {} THEN d ELSE Max(S)

\* the character of to at the place c has in from; c when it has none
translate(c, from, to) ==
    LET at(i) == IF i = 0 THEN c ELSE to[i]
    IN at(MinOr({i \in 1..Len(from) : from[i] = c}, 0))

\* the place c has in seq, 0 when it has none
index_of(c, seq) == MinOr({i \in 1..Len(seq) : seq[i] = c}, 0)

\* \w of the re module, on the ASCII characters the model uses
IsWordChar(c) ==
    \/ \E i \in 1..26 : c \in {UpperLetters[i], LowerLetters[i]}
    \/ c \in Digits
    \/ c = "_"

UpperSet == {UpperLetters[i] : i \in 1..Len(UpperLetters)}
LowerSet == {LowerLetters[i] : i \in 1..Len(LowerLetters)}

lower_char(c) == IF c \in UpperSet THEN translate(c, UpperLetters, LowerLetters) ELSE c

upper_char(c) == IF c \in LowerSet THEN translate(c, LowerLetters, UpperLetters) ELSE c

\* str.lower() and str.upper()
lower(s) == [i \in 1..Len(s) |-> lower_char(s[i])]
upper(s) == [i \in 1..Len(s) |-> upper_char(s[i])]

\* s[i:] of Python with i 1-based here
Tail_from(s, i) == SubSeq(s, i, Len(s))

\* the characters of p are those of s from position i on; p fits there
MatchesAt(p, s, i) == \A k \in 1..Len(p) : s[i + k - 1] = p[k]

\* p occurs in s starting at position i
OccursAt(p, s, i) ==
    /\ i >= 1
    /\ i + Len(p) - 1 <= Len(s)
    /\ MatchesAt(p, s, i)

\* str.find(p, from): the first position >= from where p occurs, 0 if none
find(p, s, from) ==
    MinOr({i \in Max({from, 1})..(Len(s) - Len(p) + 1) : MatchesAt(p, s, i)}, 0)

\* str.rfind(p): the last position where p occurs, 0 if none
rfind(p, s) ==
    MaxOr({i \in 1..(Len(s) - Len(p) + 1) : MatchesAt(p, s, i)}, 0)

\* the operator  p in s
contains(p, s) == \E i \in 1..(Len(s) - Len(p) + 1) : MatchesAt(p, s, i)

startswith(s, p) == OccursAt(p, s, 1)
endswith(s, p) == Len(p) <= Len(s) /\ OccursAt(p, s, Len(s) - Len(p) + 1)

\* str.split(sep) for a non-empty separator
RECURSIVE split(_, _)
split(s, sep) ==
    LET cut(i) == IF i = 0 THEN <<s>>
                  ELSE <<SubSeq(s, 1, i - 1)>> \o split(Tail_from(s, i + Len(sep)), sep)
    IN cut(find(sep, s, 1))

\* str.strip(chars)
strip_chars(s, chars) ==
    LET kept(keep) == IF keep = {} THEN <<>> ELSE SubSeq(s, Min(keep), Max(keep))
    IN kept({i \in 1..Len(s) : s[i] \notin chars})

\* str.strip()
strip(s) == strip_chars(s, Whitespace)

\* str.split() without argument: the maximal runs of non-whitespace
RECURSIVE split_ws(_)
split_ws(s) ==
    LET runs(t, g) == IF t = <<>> THEN <<>>
                      ELSE IF g = 0 THEN <<t>>
                      ELSE <<SubSeq(t, 1, g - 1)>> \o split_ws(Tail_from(t, g + 1))
        from(t) == runs(t, MinOr({i \in 1..Len(t) : t[i] \in Whitespace}, 0))
    IN from(strip(s))

\* sep.join(parts)
RECURSIVE join(_, _)
join(sep, parts) ==
    IF parts = <<>> THEN <<>>
    ELSE IF Len(parts) = 1 THEN parts[1]
    ELSE parts[1] \o sep \o join(sep, Tail(parts))

\* str.replace(old, new) for a non-empty old
replace(s, old, new) == join(new, split(s, old))

last(parts) == parts[Len(parts)]

\* the first position >= i of s that holds no whitespace (Len(s) + 1 if none):
\* where a greedy \s* that started at i stops
skip_ws(s, i) == MinOr({j \in i..Len(s) : s[j] \notin Whitespace}, Len(s) + 1)

\* the first position >= i of s that holds no \w character: where \w* stops
skip_word(s, i) == MinOr({j \in i..Len(s) : ~IsWordChar(s[j])}, Len(s) + 1)

\* p occurs at i when letter case is ignored (re.IGNORECASE)
OccursAtIgnoreCase(p, s, i) ==
    /\ i >= 1
    /\ i + Len(p) - 1 <= Len(s)
    /\ \A k \in 1..Len(p) : upper_char(s[i + k - 1]) = upper_char(p[k])

\* \b of the re module at position i (between s[i-1] and s[i])
word_boundary(s, i) ==
    LET before == i - 1 >= 1 /\ i - 1 <= Len(s) /\ IsWordChar(s[i - 1])
        after == i >= 1 /\ i <= Len(s) /\ IsWordChar(s[i])
    IN before # after

\* CREATE\s+PROCEDURE matched at i with re.IGNORECASE: the position after
\* the match, 0 when there is no match at i
create_procedure_end(s, i) ==
    LET procedure_at(p) ==
            IF /\ OccursAtIgnoreCase(<<"C","R","E","A","T","E">>, s, i)
               /\ p > i + 6
               /\ OccursAtIgnoreCase(<<"P","R","O","C","E","D","U","R","E">>, s, p)
            THEN p + 9 ELSE 0
    IN procedure_at(skip_ws(s, i + 6))

\* (.*?)\)\s*AS matched from position p on with re.DOTALL | re.IGNORECASE:
\* the position of the closing parenthesis, 0 when there is no match
close_paren_as(s, p) ==
    MinOr({e \in p..Len(s) :
             /\ s[e] = ")"
             /\ OccursAtIgnoreCase(<<"A","S">>, s, skip_ws(s, e + 1))}, 0)

\* OPEN\s+(.*?)\s+CLOSE with re.DOTALL | re.IGNORECASE tried at start i:
\* group 1 as [matched, text]; no match at i = 0
lazy_between_at(s, i, open_kw, close_kw) ==
    LET group(g, e) ==
            IF ~(OccursAtIgnoreCase(open_kw, s, i) /\ g > i + Len(open_kw))
            THEN [matched |-> FALSE, text |-> <<>>]
            ELSE IF e # 0
            THEN [matched |-> TRUE, text |-> SubSeq(s, g, e - 1)]
            \* the greedy \s+ gives one whitespace character back to \s+CLOSE
            ELSE IF g > i + Len(open_kw) + 1 /\ OccursAtIgnoreCase(close_kw, s, g)
            THEN [matched |-> TRUE, text |-> <<>>]
            ELSE [matched |-> FALSE, text |-> <<>>]
        from(g) == group(g, MinOr({e \in g..Len(s) :
                                     /\ s[e] \in Whitespace
                                     /\ OccursAtIgnoreCase(close_kw, s, skip_ws(s, e))}, 0))
    IN from(skip_ws(s, i + Len(open_kw)))

\* re.search of that pattern: the leftmost start that matches
lazy_between(s, open_kw, close_kw) ==
    lazy_between_at(s, MinOr({i \in 1..Len(s) :
                                lazy_between_at(s, i, open_kw, close_kw).matched}, 0),
                    open_kw, close_kw)

\* the ASCII characters 32..95 and 97..126 in code-point order (the grave
\* accent, 96, cannot be written in a string of this notation)
PrintableLow ==
    <<" ","!","\"","#","$","%","&","'","(",")","*","+",",","-",".","/",
      "0","1","2","3","4","5","6","7","8","9",":",";","<","=",">","?",
      "@","A","B","C","D","E","F","G","H","I","J","K","L","M","N","O",
      "P","Q","R","S","T","U","V","W","X","Y","Z","[","\\","]","^","_">>
PrintableHigh ==
    <<"a","b","c","d","e","f","g","h","i","j","k","l","m","n","o","p",
      "q","r","s","t","u","v","w","x","y","z","{","|","}","~">>

\* ord(c) of Python for the ASCII characters
ord(c) ==
    LET high(h) == 96 + h
        low(l) == IF l # 0 THEN 31 + l ELSE high(index_of(c, PrintableHigh))
    IN IF c = "\t" THEN 9
       ELSE IF c = "\n" THEN 10
       ELSE IF c = "\r" THEN 13
       ELSE low(index_of(c, PrintableLow))

\* a < b for str: lexicographic by code point
str_less(a, b) ==
    \E k \in 1..(Len(b)) :
        /\ \A j \in 1..(k - 1) : j <= Len(a) /\ a[j] = b[j]
        /\ k - 1 <= Len(a)
        /\ (k > Len(a) \/ ord(a[k]) < ord(b[k]))

\* sorted(S) for a set of str
RECURSIVE sorted(_)
sorted(S) ==
    LET from(m) == <<m>> \o sorted(S \ {m})
    IN IF S = {} THEN <<>>
       ELSE from(CHOOSE x \in S : \A y \in S \ {x} : str_less(x, y))

(***************************************************************************)
(* Text literals of the source.                                            *)
(***************************************************************************)
S_CREATE_PROCEDURE == <<"C","R","E","A","T","E"," ","P","R","O","C","E","D","U","R","E">>
S_AS == <<"A","S">>
S_AT == <<"@">>
S_SPACE == <<" ">>
S_NL == <<"\n">>
S_COMMA == <<",">>
S_DOT == <<".">>
S_DECLARATION_MARKER == <<"C","R","E","A","T","E"," ","O","R"," ","R","E","P","L","A","C","E"," ","F","U","N","C","T","I","O","N">>

T_int == <<"i","n","t">>
T_varchar == <<"v","a","r","c","h","a","r">>
T_nvarchar == <<"n","v","a","r","c","h","a","r">>
T_decimal == <<"d","e","c","i","m","a","l">>
T_money == <<"m","o","n","e","y">>
T_datetime == <<"d","a","t","e","t","i","m","e">>
T_bit == <<"b","i","t">>
T_varbinary == <<"v","a","r","b","i","n","a","r","y">>

PG_bytea == <<"b","y","t","e","a">>
PG_text == <<"t","e","x","t">>
PG_numeric == <<"n","u","m","e","r","i","c">>
PG_timestamp == <<"t","i","m","e","s","t","a","m","p">>
PG_boolean == <<"b","o","o","l","e","a","n">>
PG_integer == <<"i","n","t","e","g","e","r">>

(***************************************************************************)
(* extract_parameters (convert_sql_refined.py; the same function is       *)
(* repeated in convert_sql_adjustments.py and final_converter.py).         *)
(***************************************************************************)

\* the chain with the int rule tried first, as the chain of extract_params
\* (batch_converter.py) has it
map_type_int_first(type_str) ==
    IF contains(T_int, type_str) THEN PG_integer
    ELSE IF contains(T_varbinary, type_str) THEN PG_bytea
    ELSE IF contains(T_varchar, type_str) \/ contains(T_nvarchar, type_str) THEN PG_text
    ELSE IF contains(T_decimal, type_str) \/ contains(T_money, type_str) THEN PG_numeric
    ELSE IF contains(T_datetime, type_str) THEN PG_timestamp
    ELSE IF contains(T_bit, type_str) THEN PG_boolean
    ELSE type_str

\* the if/elif chain that maps type_str, in the order of the source
map_type(type_str) ==
    IF contains(T_varbinary, type_str) THEN PG_bytea
    ELSE IF contains(T_varchar, type_str) \/ contains(T_nvarchar, type_str) THEN PG_text
    ELSE IF contains(T_decimal, type_str) \/ contains(T_money, type_str) THEN PG_numeric
    ELSE IF contains(T_datetime, type_str) THEN PG_timestamp
    ELSE IF contains(T_bit, type_str) THEN PG_boolean
    ELSE IF contains(T_int, type_str) THEN PG_integer
    ELSE type_str

\* the type keywords a line must contain to be taken as a parameter
param_line_types == {T_int, T_varchar, T_decimal, T_datetime, T_bit, T_varbinary}

\* param = line.strip().strip(",").strip()
param_text_of(line) == strip(strip_chars(strip(line), {","}))

\* type_str = " ".join(param.split(" ")[1:]).lower()
type_str_of(param) == lower(join(S_SPACE, Tail(split(param, S_SPACE))))

\* the body of the last branch of the loop: one (name, type) pair of a line
param_of_line(line) ==
    LET pair(param) == [name |-> split(split(param, S_AT)[2], S_SPACE)[1],
                        type |-> map_type(type_str_of(param))]
    IN pair(param_text_of(line))

\* the loop over the lines, from line i on, with the flag in_params
RECURSIVE extract_parameters_from(_, _, _)
extract_parameters_from(lines, i, in_params) ==
    LET step(line) ==
            IF contains(S_CREATE_PROCEDURE, line)
            THEN extract_parameters_from(lines, i + 1, TRUE)
            ELSE IF in_params /\ contains(S_AS, line)
            THEN <<>>
            ELSE IF /\ in_params
                    /\ contains(S_AT, line)
                    /\ \E typ \in param_line_types : contains(typ, lower(line))
            THEN <<param_of_line(line)>> \o extract_parameters_from(lines, i + 1, in_params)
            ELSE extract_parameters_from(lines, i + 1, in_params)
    IN IF i > Len(lines) THEN <<>> ELSE step(strip(lines[i]))

extract_parameters(sql_content) ==
    extract_parameters_from(split(sql_content, S_NL), 1, FALSE)

(***************************************************************************)
(* extract_params (batch_converter.py).                                    *)
(***************************************************************************)

\* re.search(r"CREATE\s+PROCEDURE[^(]*\((.*?)\)\s*AS", ...) tried at start i:
\* [start, end] of group 1, <<>> when the pattern does not match at i.
\* [^(]* can only stop at the first "(" after the keyword.
params_group_at(s, i) ==
    LET closed(open, close) == IF close = 0 THEN <<>> ELSE <<open + 1, close - 1>>
        opened(open) == IF open = 0 THEN <<>>
                        ELSE closed(open, close_paren_as(s, open + 1))
        from(k) == IF k = 0 THEN <<>>
                   ELSE opened(MinOr({j \in k..Len(s) : s[j] = "("}, 0))
    IN from(create_procedure_end(s, i))

\* group 1 of the leftmost match, [matched |-> FALSE] when there is none
params_group(s) ==
    LET text_of(g) == IF g = <<>> THEN [matched |-> FALSE, text |-> <<>>]
                      ELSE [matched |-> TRUE, text |-> SubSeq(s, g[1], g[2])]
    IN text_of(params_group_at(s, MinOr({i \in 1..Len(s) :
                                           params_group_at(s, i) # <<>>}, 0)))

\* the "# Convert type" chain of extract_params
convert_type(type_str) ==
    IF contains(T_int, type_str) THEN PG_integer
    ELSE IF contains(T_varchar, type_str) \/ contains(T_nvarchar, type_str) THEN PG_text
    ELSE IF contains(T_bit, type_str) THEN PG_boolean
    ELSE IF contains(T_datetime, type_str) THEN PG_timestamp
    ELSE IF contains(T_decimal, type_str) \/ contains(T_money, type_str) THEN PG_numeric
    ELSE type_str

\* param_section.split(","): the fragments the loop iterates over
param_fragments(param_section) == split(param_section, S_COMMA)

\* one "name type" entry per fragment that holds an "@"
RECURSIVE extract_params_from(_, _)
extract_params_from(fragments, i) ==
    LET entry(param) ==
            IF contains(S_AT, param)
            THEN <<split_ws(split(param, S_AT)[2])[1] \o S_SPACE
                   \o convert_type(lower(join(S_SPACE, Tail(split_ws(param)))))>>
            ELSE <<>>
    IN IF i > Len(fragments) THEN <<>>
       ELSE entry(strip(fragments[i])) \o extract_params_from(fragments, i + 1)

extract_params(sql_content) ==
    LET of_section(param_section) ==
            IF param_section = <<>> THEN join(<<",","\n"," "," "," "," ">>, <<>>)
            ELSE join(<<",","\n"," "," "," "," ">>, extract_params_from(param_fragments(param_section), 1))
        of_match(param_match) ==
            IF ~param_match.matched THEN <<>> ELSE of_section(strip(param_match.text))
    IN of_match(params_group(sql_content))

(***************************************************************************)
(* handle_large_file (convert_sql_refined.py).                             *)
(***************************************************************************)

\* re.sub(r"/\*.*?\*/", "", s, flags=re.DOTALL)
RECURSIVE remove_block_comments(_)
remove_block_comments(s) ==
    LET cut(i, j) == IF i = 0 THEN s
                     ELSE IF j = 0 THEN s
                     ELSE SubSeq(s, 1, i - 1) \o remove_block_comments(Tail_from(s, j + 2))
        from(i) == cut(i, find(<<"*","/">>, s, i + 2))
    IN from(find(<<"/","*">>, s, 1))

\* re.sub(r"--.*$", "", s, flags=re.MULTILINE)
RECURSIVE remove_line_comments(_)
remove_line_comments(s) ==
    LET cut(i, nl) == IF i = 0 THEN s
                      ELSE IF nl = 0 THEN SubSeq(s, 1, i - 1)
                      ELSE SubSeq(s, 1, i - 1) \o remove_line_comments(Tail_from(s, nl))
        from(i) == cut(i, find(S_NL, s, i))
    IN from(find(<<"-","-">>, s, 1))

\* \[(\w+)\] matched at position i: the position of the "]", 0 when no match
bracket_end(s, i) ==
    LET closes(e) == IF s[i] = "[" /\ e > i + 1 /\ e <= Len(s) /\ s[e] = "]" THEN e ELSE 0
    IN closes(skip_word(s, i + 1))

\* re.sub(r"\[(\w+)\]", r"\1", s), from position i on: match by match
RECURSIVE strip_brackets_from(_, _)
strip_brackets_from(s, i) ==
    LET rest(j0, e) == SubSeq(s, i, j0 - 1) \o SubSeq(s, j0 + 1, e - 1)
                       \o strip_brackets_from(s, e + 1)
        from(j0) == IF j0 = 0 THEN Tail_from(s, i) ELSE rest(j0, bracket_end(s, j0))
    IN from(MinOr({j \in i..Len(s) : bracket_end(s, j) # 0}, 0))

\* re.sub(r"\bGO\b", "", s), from position i on: match by match
RECURSIVE remove_go_from(_, _)
remove_go_from(s, i) ==
    LET from(j0) == IF j0 = 0 THEN Tail_from(s, i)
                    ELSE SubSeq(s, i, j0 - 1) \o remove_go_from(s, j0 + 2)
    IN from(MinOr({j \in i..Len(s) :
                     OccursAt(<<"G","O">>, s, j) /\ word_boundary(s, j) /\ word_boundary(s, j + 2)}, 0))

\* the "# Initial cleanup" of handle_large_file
initial_cleanup(sql_content) ==
    LET c1 == replace(sql_content, <<"S","E","T"," ","N","O","C","O","U","N","T"," ","O","N">>, <<>>)
        c2 == remove_block_comments(c1)
        c3 == remove_line_comments(c2)
        c4 == strip_brackets_from(c3, 1)
    IN remove_go_from(c4, 1)

\* re.search(r"CREATE\s+PROCEDURE.*?\((.*?)\)\s*AS", ...) tried at start i:
\* [start, end] of group 1, <<>> when the pattern does not match at i.
\* The lazy .*? moves on to a later "(" when no ") AS" follows the earlier.
header_group_at(s, i) ==
    LET group(open) == IF open = 0 THEN <<>>
                       ELSE <<open + 1, close_paren_as(s, open + 1) - 1>>
        from(k) == IF k = 0 THEN <<>>
                   ELSE group(MinOr({j \in k..Len(s) :
                                       s[j] = "(" /\ close_paren_as(s, j + 1) # 0}, 0))
    IN from(create_procedure_end(s, i))

header_group(s) ==
    LET text_of(g) == IF g = <<>> THEN [matched |-> FALSE, text |-> <<>>]
                      ELSE [matched |-> TRUE, text |-> SubSeq(s, g[1], g[2])]
    IN text_of(header_group_at(s, MinOr({i \in 1..Len(s) :
                                           header_group_at(s, i) # <<>>}, 0)))

\* the first position >= i that holds "=" or whitespace: where [^=\s]+ stops
skip_type(s, i) == MinOr({j \in i..Len(s) : s[j] = "=" \/ s[j] \in Whitespace}, Len(s) + 1)

\* the first position >= i that holds "," or whitespace: where [^,\s]+ stops
skip_default(s, i) == MinOr({j \in i..Len(s) : s[j] = "," \/ s[j] \in Whitespace}, Len(s) + 1)

\* re.match(r"@(\w+)\s+([^=\s]+)(?:\s*=\s*([^,\s]+))?", param)
param_match(param) ==
    LET fields(n_end, t_start, t_end, dflt) ==
            IF /\ Len(param) >= 1 /\ param[1] = "@"
               /\ n_end > 2
               /\ t_start > n_end
               /\ t_end > t_start
            THEN [matched |-> TRUE,
                  name |-> SubSeq(param, 2, n_end - 1),
                  type_str |-> SubSeq(param, t_start, t_end - 1),
                  has_default |-> dflt.has_default,
                  default |-> dflt.default]
            ELSE [matched |-> FALSE, name |-> <<>>, type_str |-> <<>>,
                  has_default |-> FALSE, default |-> <<>>]
        \* the optional group: "=" at eq, then the value from d_start to d_end
        default_span(eq, d_start, d_end) ==
            IF eq <= Len(param) /\ param[eq] = "=" /\ d_end > d_start
            THEN [has_default |-> TRUE, default |-> SubSeq(param, d_start, d_end - 1)]
            ELSE [has_default |-> FALSE, default |-> <<>>]
        default_value(eq, d_start) == default_span(eq, d_start, skip_default(param, d_start))
        default_at(eq) == default_value(eq, skip_ws(param, eq + 1))
        typed(n_end, t_start, t_end) ==
            fields(n_end, t_start, t_end, default_at(skip_ws(param, t_end)))
        named(n_end, t_start) == typed(n_end, t_start, skip_type(param, t_start))
        from(n_end) == named(n_end, skip_ws(param, n_end))
    IN from(skip_word(param, 2))

\* the dict lookup  {...}.get(type_str.lower().split("(")[0], type_str.lower())
param_pg_type(type_str) ==
    LET lookup(key) ==
            IF key = T_varchar THEN PG_text
            ELSE IF key = T_nvarchar THEN PG_text
            ELSE IF key = T_bit THEN PG_boolean
            ELSE IF key = T_datetime THEN PG_timestamp
            ELSE IF key = T_money THEN PG_numeric
            ELSE IF key = T_int THEN PG_integer
            ELSE lower(type_str)
    IN lookup(split(lower(type_str), <<"(">>)[1])

\* [p.strip() for p in params_text.split(",") if p.strip()]
RECURSIVE stripped_nonempty(_, _)
stripped_nonempty(parts, i) ==
    LET kept(p) == IF p # <<>> THEN <<p>> ELSE <<>>
    IN IF i > Len(parts) THEN <<>>
       ELSE kept(strip(parts[i])) \o stripped_nonempty(parts, i + 1)

large_file_fragments(params_text) == stripped_nonempty(split(params_text, S_COMMA), 1)

\* the parameter loop: one "    _name type[ DEFAULT d]" line per matching fragment
RECURSIVE large_file_params(_, _)
large_file_params(fragments, i) ==
    LET with_default(m, param_str) ==
            IF m.has_default
            THEN param_str \o <<" ","D","E","F","A","U","L","T"," ">> \o replace(m.default, <<"N","U","L","L">>, <<"n","u","l","l">>)
            ELSE param_str
        entry(m) ==
            IF m.matched
            THEN <<with_default(m, <<" "," "," "," ","_">> \o lower(m.name) \o S_SPACE
                                   \o param_pg_type(m.type_str))>>
            ELSE <<>>
    IN IF i > Len(fragments) THEN <<>>
       ELSE entry(param_match(fragments[i])) \o large_file_params(fragments, i + 1)

\* output_parts up to and including the "DECLARE" line
large_file_header_parts(sql_clean, schema_name, proc_name) ==
    LET params_text == header_group(sql_clean).text
        params == large_file_params(large_file_fragments(params_text), 1)
    IN << <<"C","R","E","A","T","E"," ","O","R"," ","R","E","P","L","A","C","E"," ","F","U","N","C","T","I","O","N"," ">> \o schema_name \o S_DOT \o proc_name \o <<"(">>,
          join(<<",","\n">>, params),
          <<")">>,
          <<" "," "," "," ","R","E","T","U","R","N","S"," ","v","o","i","d">>,
          <<" "," "," "," ","L","A","N","G","U","A","G","E"," ","p","l","p","g","s","q","l">>,
          <<" "," "," "," ","S","T","A","B","L","E">>,
          <<"A","S"," ","$","$">>,
          <<"D","E","C","L","A","R","E">> >>

\* the first position >= i that holds ";" or a newline: where [^;\n]+ stops
skip_decl_type(s, i) == MinOr({j \in i..Len(s) : s[j] = ";" \/ s[j] = "\n"}, Len(s) + 1)

\* re: DECLARE\s+@(\w+)\s+([^;\n]+) with re.IGNORECASE tried at start i.
\* The greedy \s+ before group 2 gives characters back when group 2 would
\* otherwise be empty, so group 2 starts at the last position, not after the
\* whitespace run, that holds neither ";" nor a newline.
declare_at(s, i) ==
    LET fields(at, n_end, t_start) ==
            IF /\ OccursAtIgnoreCase(<<"D","E","C","L","A","R","E">>, s, i)
               /\ at > i + 7
               /\ at <= Len(s) /\ s[at] = "@"
               /\ n_end > at + 1
               /\ t_start # 0
            THEN [matched |-> TRUE,
                  name |-> SubSeq(s, at + 1, n_end - 1),
                  type_str |-> SubSeq(s, t_start, skip_decl_type(s, t_start) - 1),
                  end |-> skip_decl_type(s, t_start)]
            ELSE [matched |-> FALSE, name |-> <<>>, type_str |-> <<>>, end |-> i + 1]
        typed(at, n_end, ws_end) ==
            fields(at, n_end, MaxOr({q \in (n_end + 1)..ws_end :
                                       q <= Len(s) /\ s[q] # ";" /\ s[q] # "\n"}, 0))
        named(at, n_end) == typed(at, n_end, skip_ws(s, n_end))
        from(at) == named(at, skip_word(s, at + 1))
    IN from(skip_ws(s, i + 7))

\* the dict lookup of the declaration loop
declare_pg_type(type_str) ==
    LET lookup(key) ==
            IF key = T_varchar THEN PG_text
            ELSE IF key = T_nvarchar THEN PG_text
            ELSE IF key = T_bit THEN PG_boolean
            ELSE IF key = T_int THEN PG_integer
            ELSE lower(type_str)
    IN lookup(split(lower(type_str), <<"(">>)[1])

\* re.finditer over sql_clean from position i: the set of declaration lines
RECURSIVE declarations_from(_, _)
declarations_from(s, i) ==
    LET rest(m) ==
            {<<" "," "," "," ","_">> \o lower(m.name) \o S_SPACE \o declare_pg_type(m.type_str) \o <<";">>}
            \cup declarations_from(s, m.end)
        from(j0) == IF j0 = 0 THEN {} ELSE rest(declare_at(s, j0))
    IN from(MinOr({j \in i..Len(s) : declare_at(s, j).matched}, 0))

\* "# Handle declarations": the sorted declaration lines, then "BEGIN"
large_file_declaration_parts(sql_clean) ==
    sorted({<<" "," "," "," ","_","m","o","d","i","f","i","e","d","_","b","y"," ","t","e","x","t",";">>} \cup declarations_from(sql_clean, 1)) \o <<<<"B","E","G","I","N">>>>

\* re.search(r"WITH\s+(.*?)\s+SELECT", ...) with re.DOTALL | re.IGNORECASE
with_group(s) == lazy_between(s, <<"W","I","T","H">>, <<"S","E","L","E","C","T">>)

\* the separator ,\s*(\w+)\s+AS\s*\( of re.split tried at position i
cte_separator_at(s, i) ==
    LET fields(n_start, n_end, as_start, open) ==
            IF /\ s[i] = ","
               /\ n_end > n_start
               /\ as_start > n_end
               /\ OccursAt(S_AS, s, as_start)
               /\ open <= Len(s) /\ s[open] = "("
            THEN [matched |-> TRUE, name |-> SubSeq(s, n_start, n_end - 1), end |-> open + 1]
            ELSE [matched |-> FALSE, name |-> <<>>, end |-> i + 1]
        as_kw(n_start, n_end, as_start) ==
            fields(n_start, n_end, as_start, skip_ws(s, as_start + 2))
        named(n_start, n_end) == as_kw(n_start, n_end, skip_ws(s, n_end))
        from(n_start) == named(n_start, skip_word(s, n_start))
    IN from(skip_ws(s, i + 1))

\* re.split(r",\s*(\w+)\s+AS\s*\(", ctes_text): text, name, text, name, ...
\* from position i on, separator by separator
RECURSIVE cte_split(_, _)
cte_split(s, i) ==
    LET rest(j0, m) == <<SubSeq(s, i, j0 - 1), m.name>> \o cte_split(s, m.end)
        from(j0) == IF j0 = 0 THEN <<Tail_from(s, i)>> ELSE rest(j0, cte_separator_at(s, j0))
    IN from(MinOr({j \in i..Len(s) : cte_separator_at(s, j).matched}, 0))

\* the loop  for i in range(1, len(cte_definitions), 2)
RECURSIVE formatted_cte_lines(_, _)
formatted_cte_lines(cte_definitions, i) ==
    LET cte_content(stripped) == IF endswith(stripped, <<")">>)
                                 THEN SubSeq(stripped, 1, Len(stripped) - 1)
                                 ELSE stripped
    IN IF i + 1 > Len(cte_definitions) THEN <<>>
       ELSE << cte_definitions[i] \o <<" ","A","S"," ","(">>,
               <<" "," "," "," ">> \o cte_content(strip(cte_definitions[i + 1])),
               <<")",",">> >>
            \o formatted_cte_lines(cte_definitions, i + 2)

\* "# Extract CTEs and main body": the lines added for the CTEs
large_file_cte_parts(sql_clean) ==
    LET trimmed(formatted_ctes, n) ==
            IF endswith(formatted_ctes[n], S_COMMA)
            THEN [formatted_ctes EXCEPT ![n] = SubSeq(@, 1, Len(@) - 1)]
            ELSE formatted_ctes
        sized(formatted_ctes) == trimmed(formatted_ctes, Len(formatted_ctes))
        \* Python index 1 is index 2 here
        of_match(cte_match) ==
            IF ~cte_match.matched THEN <<>>
            ELSE sized(<<<<"W","I","T","H">>>> \o formatted_cte_lines(cte_split(cte_match.text, 1), 2))
    IN of_match(with_group(sql_clean))

\* re.search(r"BEGIN\s+(.*?)END\s*$", ...) with re.DOTALL | re.IGNORECASE:
\* group 1 runs from the leftmost "BEGIN\s+" to the first END that only
\* whitespace separates from the end of the text
body_group(s) ==
    LET group(ends, g) ==
            [matched |-> TRUE, text |-> SubSeq(s, g, Min({e \in ends : e >= g}) - 1)]
        from(ends, b0) == IF b0 = 0 THEN [matched |-> FALSE, text |-> <<>>]
                          ELSE group(ends, skip_ws(s, b0 + 5))
        begin(ends) ==
            from(ends, MinOr({b \in 1..Len(s) :
                                /\ OccursAtIgnoreCase(<<"B","E","G","I","N">>, s, b)
                                /\ skip_ws(s, b + 5) > b + 5
                                /\ \E e \in ends : e >= skip_ws(s, b + 5)}, 0))
    IN begin({e \in 1..Len(s) :
                OccursAtIgnoreCase(<<"E","N","D">>, s, e) /\ skip_ws(s, e + 3) = Len(s) + 1})

\* "." of a pattern compiled without re.DOTALL
no_newline(s, from, to) == \A j \in from..to : s[j] # "\n"

first_at(s, c, from) == find(<<c>>, s, from)

\* one rule of the replacements table tried at position i of s
\* (re.IGNORECASE): [matched, repl, end]
NoMatch(i) == [matched |-> FALSE, repl |-> <<>>, end |-> i + 1]

literal_rule(s, i, pat, repl) ==
    IF OccursAtIgnoreCase(pat, s, i)
    THEN [matched |-> TRUE, repl |-> repl, end |-> i + Len(pat)]
    ELSE NoMatch(i)

\* r"@(\w+)" -> r"_\1"
rule_variable(s, i) ==
    LET closes(e) ==
            IF s[i] = "@" /\ e > i + 1
            THEN [matched |-> TRUE, repl |-> <<"_">> \o SubSeq(s, i + 1, e - 1), end |-> e]
            ELSE NoMatch(i)
    IN closes(skip_word(s, i + 1))

\* PREFIX(.*?),(.*?)\)  ->  before \1 between \2 after
two_group_rule(s, i, prefix, before, between, after) ==
    LET g1 == i + Len(prefix)
        groups(c, d) ==
            IF /\ OccursAtIgnoreCase(prefix, s, i)
               /\ c # 0
               /\ d # 0
               /\ no_newline(s, g1, d - 1)
            THEN [matched |-> TRUE,
                  repl |-> before \o SubSeq(s, g1, c - 1) \o between
                           \o SubSeq(s, c + 1, d - 1) \o after,
                  end |-> d + 1]
            ELSE NoMatch(i)
        from(c) == groups(c, first_at(s, ")", c + 1))
    IN from(first_at(s, ",", g1))

\* r"LEN\((.*?)\)" -> r"length(\1)"
rule_len(s, i) ==
    LET group(d) ==
            IF OccursAtIgnoreCase(<<"L","E","N","(">>, s, i) /\ d # 0 /\ no_newline(s, i + 4, d - 1)
            THEN [matched |-> TRUE,
                  repl |-> <<"l","e","n","g","t","h","(">> \o SubSeq(s, i + 4, d - 1) \o <<")">>,
                  end |-> d + 1]
            ELSE NoMatch(i)
    IN group(first_at(s, ")", i + 4))

\* r"SET\s+@(\w+)\s*=" -> r"_\1 :="
rule_set(s, i) ==
    LET fields(at, n_end, eq) ==
            IF /\ OccursAtIgnoreCase(<<"S","E","T">>, s, i)
               /\ at > i + 3
               /\ at <= Len(s) /\ s[at] = "@"
               /\ n_end > at + 1
               /\ eq <= Len(s) /\ s[eq] = "="
            THEN [matched |-> TRUE,
                  repl |-> <<"_">> \o SubSeq(s, at + 1, n_end - 1) \o <<" ",":","=">>,
                  end |-> eq + 1]
            ELSE NoMatch(i)
        named(at, n_end) == fields(at, n_end, skip_ws(s, n_end))
        from(at) == named(at, skip_word(s, at + 1))
    IN from(skip_ws(s, i + 3))

\* r"SELECT\s+TOP\s+1" -> "SELECT"
rule_top(s, i) ==
    LET fields(top, one) ==
            IF /\ OccursAtIgnoreCase(<<"S","E","L","E","C","T">>, s, i)
               /\ top > i + 6
               /\ OccursAtIgnoreCase(<<"T","O","P">>, s, top)
               /\ one > top + 3
               /\ one <= Len(s) /\ s[one] = "1"
            THEN [matched |-> TRUE, repl |-> <<"S","E","L","E","C","T">>, end |-> one + 1]
            ELSE NoMatch(i)
        from(top) == fields(top, skip_ws(s, top + 3))
    IN from(skip_ws(s, i + 6))

\* the replacements dict, in insertion order
ReplacementRules ==
    <<"variable", "dbo_bracket", "isnull", "getdate", "scope_identity",
      "datediff", "len", "set", "top", "akrebate">>

rule_at(rule, s, i) ==
    CASE rule = "variable" -> rule_variable(s, i)
      [] rule = "dbo_bracket" -> literal_rule(s, i, <<"[","d","b","o","]",".">>, <<>>)
      [] rule = "isnull" -> two_group_rule(s, i, <<"I","S","N","U","L","L","(">>, <<"C","O","A","L","E","S","C","E","(">>, <<",">>, <<")">>)
      [] rule = "getdate" -> literal_rule(s, i, <<"G","E","T","D","A","T","E","(",")">>, <<"C","U","R","R","E","N","T","_","T","I","M","E","S","T","A","M","P">>)
      [] rule = "scope_identity" -> literal_rule(s, i, <<"S","C","O","P","E","_","I","D","E","N","T","I","T","Y","(",")">>, <<"l","a","s","t","v","a","l","(",")">>)
      [] rule = "datediff" -> two_group_rule(s, i, <<"D","A","T","E","D","I","F","F","(","d","a","y",",">>, <<>>, <<" ","-"," ">>, <<>>)
      [] rule = "len" -> rule_len(s, i)
      [] rule = "set" -> rule_set(s, i)
      [] rule = "top" -> rule_top(s, i)
      [] rule = "akrebate" -> literal_rule(s, i, <<"a","k","r","e","b","a","t","e",".","d","b","o",".">>, <<"a","k","r","e","b","a","t","e",".">>)

\* re.sub(pattern, repl, s, flags=re.IGNORECASE) for one rule, from position
\* i on, match by match
RECURSIVE sub_rule(_, _, _)
sub_rule(rule, s, i) ==
    LET rest(j0, m) == SubSeq(s, i, j0 - 1) \o m.repl \o sub_rule(rule, s, m.end)
        from(j0) == IF j0 = 0 THEN Tail_from(s, i) ELSE rest(j0, rule_at(rule, s, j0))
    IN from(MinOr({j \in i..Len(s) : rule_at(rule, s, j).matched}, 0))

\* for pattern, repl in replacements.items(): the rules from k on, in order
RECURSIVE apply_replacements(_, _)
apply_replacements(body, k) ==
    IF k > Len(ReplacementRules) THEN body
    ELSE apply_replacements(sub_rule(ReplacementRules[k], body, 1), k + 1)

\* "# Convert the rest of the body": the converted body, when there is one
large_file_body_parts(sql_clean) ==
    LET converted(body) == IF body.matched THEN <<apply_replacements(body.text, 1)>> ELSE <<>>
    IN converted(body_group(sql_clean))

\* the function itself; [kind |-> "none"] is Python's None
handle_large_file(sql_content, schema_name, proc_name) ==
    LET output(sql_clean) ==
            IF ~header_group(sql_clean).matched THEN [kind |-> "none"]
            ELSE [kind |-> "value",
                  val |-> join(S_NL,
                               large_file_header_parts(sql_clean, schema_name, proc_name)
                               \o large_file_declaration_parts(sql_clean)
                               \o large_file_cte_parts(sql_clean)
                               \o large_file_body_parts(sql_clean)
                               \o <<<<"E","N","D",";">>, <<"$","$",";">>>>)]
    IN output(initial_cleanup(sql_content))

(***************************************************************************)
(* extract_return_structure (convert_sql_adjustments.py and, identically, *)
(* final_converter.py).                                                    *)
(***************************************************************************)

\* the type_hints dict, in insertion order
type_hints ==
    << [hint |-> <<"i","d">>,          type_name |-> PG_integer],
       [hint |-> <<"d","a","t","e">>,        type_name |-> PG_timestamp],
       [hint |-> <<"t","i","m","e">>,        type_name |-> PG_timestamp],
       [hint |-> <<"d","a","t","e","t","i","m","e">>,    type_name |-> PG_timestamp],
       [hint |-> <<"c","o","s","t">>,        type_name |-> PG_numeric],
       [hint |-> <<"p","r","i","c","e">>,       type_name |-> PG_numeric],
       [hint |-> <<"a","m","o","u","n","t">>,      type_name |-> PG_numeric],
       [hint |-> <<"t","o","t","a","l">>,       type_name |-> PG_numeric],
       [hint |-> <<"r","a","t","e">>,        type_name |-> PG_numeric],
       [hint |-> <<"p","e","r","c","e","n","t">>,     type_name |-> PG_numeric],
       [hint |-> <<"r","a","t","i","o">>,       type_name |-> PG_numeric],
       [hint |-> <<"c","o","u","n","t">>,       type_name |-> PG_integer],
       [hint |-> <<"n","u","m","b","e","r">>,      type_name |-> PG_integer],
       [hint |-> <<"q","t","y">>,         type_name |-> PG_integer],
       [hint |-> <<"q","u","a","n","t","i","t","y">>,    type_name |-> PG_integer],
       [hint |-> <<"y","e","a","r">>,        type_name |-> PG_integer],
       [hint |-> <<"m","o","n","t","h">>,       type_name |-> PG_integer],
       [hint |-> <<"d","a","y">>,         type_name |-> PG_integer],
       [hint |-> <<"b","o","o","l">>,        type_name |-> PG_boolean],
       [hint |-> <<"f","l","a","g">>,        type_name |-> PG_boolean],
       [hint |-> <<"i","s">>,          type_name |-> PG_boolean],
       [hint |-> <<"h","a","s">>,         type_name |-> PG_boolean],
       [hint |-> <<"e","m","a","i","l">>,       type_name |-> PG_text],
       [hint |-> <<"n","a","m","e">>,        type_name |-> PG_text],
       [hint |-> <<"d","e","s","c","r","i","p","t","i","o","n">>, type_name |-> PG_text],
       [hint |-> <<"c","o","m","m","e","n","t">>,     type_name |-> PG_text],
       [hint |-> <<"a","d","d","r","e","s","s">>,     type_name |-> PG_text],
       [hint |-> <<"p","h","o","n","e">>,       type_name |-> PG_text] >>

\* the loop over type_hints.items() with its break
hinted_type(col) ==
    LET first_hint(hints, col_lower) ==
            LET pick(k) == IF k = 0 THEN PG_text ELSE hints[k].type_name
            IN pick(MinOr({k \in 1..Len(hints) : contains(hints[k].hint, col_lower)}, 0))
    IN first_hint(type_hints, lower(col))

\* one "name type" entry of return_columns
return_column(fragment) ==
    LET entry(col) == col \o S_SPACE \o hinted_type(col)
        unaliased(c1) ==
            entry(IF contains(<<" ","A","S"," ">>, upper(c1)) THEN last(split(c1, <<" ","A","S"," ">>)) ELSE c1)
        unqualified(c0) ==
            unaliased(IF contains(S_DOT, c0) THEN last(split(c0, S_DOT)) ELSE c0)
    IN unqualified(strip(fragment))

\* columns = [col.strip() for col in columns_text.split(",")]
select_fragments(columns_text) ==
    LET stripped(parts) == [k \in 1..Len(parts) |-> strip(parts[k])]
    IN stripped(split(columns_text, S_COMMA))

\* [kind |-> "none"] is Python's None
extract_return_structure(sql_content) ==
    LET listed(columns) ==
            [kind |-> "value",
             val |-> join(<<",","\n"," "," "," "," ">>, [k \in 1..Len(columns) |-> return_column(columns[k])])]
        between(select_start, from_start) ==
            IF select_start = 0 \/ from_start = 0 THEN [kind |-> "none"]
            ELSE listed(select_fragments(
                     strip(SubSeq(sql_content, select_start + 6, from_start - 1))))
        from(up, select_start) == between(select_start, find(<<"F","R","O","M">>, up, select_start))
        selected(up) == IF ~contains(<<"S","E","L","E","C","T">>, up) THEN [kind |-> "none"]
                        ELSE from(up, find(<<"S","E","L","E","C","T">>, up, 1))
    IN selected(upper(sql_content))

(***************************************************************************)
(* batch_converter.py: extract_schema_and_name, extract_select_columns,   *)
(* validate_converted_sql, infer_column_type.                              *)
(***************************************************************************)

\* name.replace("[", "").replace("]", "")
clean_name(name) == replace(replace(name, <<"[">>, <<>>), <<"]">>, <<>>)

\* re: CREATE\s+PROCEDURE\s+\[?(\w+)\]?\.\[?(\w+)\]? with re.IGNORECASE
\* tried at start i: [matched, schema, name]
create_pattern_at(s, i) ==
    LET fields(k, p, g1, g1_end, dot, g2, g2_end) ==
            IF /\ k # 0
               /\ p > k
               /\ g1_end > g1
               /\ dot <= Len(s) /\ s[dot] = "."
               /\ g2_end > g2
            THEN [matched |-> TRUE, schema |-> SubSeq(s, g1, g1_end - 1),
                  name |-> SubSeq(s, g2, g2_end - 1)]
            ELSE [matched |-> FALSE, schema |-> <<>>, name |-> <<>>]
        second(k, p, g1, g1_end, dot, g2) ==
            fields(k, p, g1, g1_end, dot, g2, skip_word(s, g2))
        dotted(k, p, g1, g1_end, dot) ==
            second(k, p, g1, g1_end, dot,
                   IF dot + 1 <= Len(s) /\ s[dot + 1] = "[" THEN dot + 2 ELSE dot + 1)
        first(k, p, g1, g1_end) ==
            dotted(k, p, g1, g1_end,
                   IF g1_end <= Len(s) /\ s[g1_end] = "]" THEN g1_end + 1 ELSE g1_end)
        opened(k, p, g1) == first(k, p, g1, skip_word(s, g1))
        spaced(k, p) == opened(k, p, IF p <= Len(s) /\ s[p] = "[" THEN p + 1 ELSE p)
        from(k) == spaced(k, skip_ws(s, k))
    IN from(create_procedure_end(s, i))

\* a variant that asks the file name first and the declaration second
batch_extract_schema_and_name_file_first(sql_content, file_name) ==
    LET by_match(match) ==
            IF match.matched
            THEN [kind |-> "value", schema |-> clean_name(match.schema),
                  name |-> clean_name(match.name)]
            ELSE [kind |-> "none"]
        by_file(parts) ==
            IF Len(parts) = 2
            THEN [kind |-> "value", schema |-> clean_name(parts[1]),
                  name |-> clean_name(parts[2])]
            ELSE by_match(create_pattern_at(sql_content,
                                            MinOr({i \in 1..Len(sql_content) :
                                                     create_pattern_at(sql_content, i).matched}, 0)))
    IN by_file(split(replace(file_name, <<".","S","t","o","r","e","d","P","r","o","c","e","d","u","r","e",".","s","q","l">>, <<>>), S_DOT))

\* a pair of names, or the pair (None, None) as [kind |-> "none"]
batch_extract_schema_and_name(sql_content, file_name) ==
    LET by_file(parts) ==
            IF Len(parts) = 2
            THEN [kind |-> "value", schema |-> clean_name(parts[1]),
                  name |-> clean_name(parts[2])]
            ELSE [kind |-> "none"]
        by_match(match) ==
            IF match.matched
            THEN [kind |-> "value", schema |-> clean_name(match.schema),
                  name |-> clean_name(match.name)]
            ELSE by_file(split(replace(file_name, <<".","S","t","o","r","e","d","P","r","o","c","e","d","u","r","e",".","s","q","l">>, <<>>), S_DOT))
    IN by_match(create_pattern_at(sql_content,
                                  MinOr({i \in 1..Len(sql_content) :
                                           create_pattern_at(sql_content, i).matched}, 0)))

\* the list of column texts; <<>> when there is no SELECT ... FROM
extract_select_columns(sql_content) ==
    LET column(col) ==
            strip(IF contains(S_DOT, col) THEN last(split(col, S_DOT)) ELSE col)
        columns(parts) == [k \in 1..Len(parts) |-> column(strip(parts[k]))]
        of_match(select_match) ==
            IF ~select_match.matched THEN <<>>
            ELSE columns(split(select_match.text, S_COMMA))
    IN of_match(lazy_between(sql_content, <<"S","E","L","E","C","T">>, <<"F","R","O","M">>))

required_elements(schema_name, proc_name) ==
    << <<"C","R","E","A","T","E"," ","O","R"," ","R","E","P","L","A","C","E"," ","F","U","N","C","T","I","O","N">>,
       schema_name \o S_DOT \o proc_name,
       <<"L","A","N","G","U","A","G","E"," ","p","l","p","g","s","q","l">>,
       <<"$","f","u","n","c","t","i","o","n","$">>,
       <<"B","E","G","I","N">>,
       <<"E","N","D",";">>,
       <<"$","f","u","n","c","t","i","o","n","$",";">> >>

\* the (verdict, message) pair; the message of a missing column carries it
validate_converted_sql(converted, original_sql, schema_name, proc_name) ==
    LET first_missing(original_columns, k) ==
            IF k # 0
            THEN [valid |-> FALSE, message |-> <<"M","i","s","s","i","n","g"," ","c","o","l","u","m","n",":"," ">> \o original_columns[k]]
            ELSE [valid |-> TRUE, message |-> <<"V","a","l","i","d"," ","c","o","n","v","e","r","s","i","o","n">>]
        verdict(original_columns, required) ==
            IF ~(\A k \in 1..Len(required) : contains(required[k], converted))
            THEN [valid |-> FALSE, message |-> <<"M","i","s","s","i","n","g"," ","r","e","q","u","i","r","e","d"," ","e","l","e","m","e","n","t","s">>]
            ELSE first_missing(original_columns,
                               MinOr({k \in 1..Len(original_columns) :
                                        ~contains(original_columns[k], converted)}, 0))
    IN verdict(extract_select_columns(original_sql),
               required_elements(schema_name, proc_name))

any_in(words, name) == \E w \in words : contains(w, name)

infer_column_type(column_name) ==
    LET typed(name) ==
            IF endswith(name, <<"i","d">>) THEN PG_integer
            ELSE IF startswith(name, <<"i","s">>) \/ name = <<"i","s","o","f","f","i","c","i","a","l">> THEN PG_boolean
            ELSE IF contains(<<"n","a","m","e">>, name)
                    \/ any_in({<<"f","i","r","s","t">>, <<"l","a","s","t">>, <<"f","i","l","e">>, <<"t","y","p","e">>, <<"s","t","a","t","u","s">>, <<"u","t","i","l","i","t","y">>}, name)
            THEN PG_text
            ELSE IF contains(<<"d","a","t","e">>, name) THEN PG_timestamp
            ELSE IF any_in({<<"c","o","s","t">>, <<"r","e","d","u","c","t","i","o","n">>, <<"m","m","b","t","u">>, <<"p","o","i","n","t","s">>}, name) THEN <<"n","u","m","e","r","i","c","(","1","0",",","2",")">>
            ELSE IF any_in({<<"a","r","e","a">>, <<"s","i","z","e">>, <<"h","e","i","g","h","t">>, <<"r","a","t","i","o">>}, name) THEN <<"n","u","m","e","r","i","c","(","1","0",",","2",")">>
            ELSE IF any_in({<<"y","e","a","r">>, <<"s","t","a","r","s">>, <<"b","e","d","r","o","o","m","s">>}, name) THEN PG_integer
            ELSE IF any_in({<<"p","h","o","n","e">>, <<"z","i","p">>, <<"a","d","d","r","e","s","s">>, <<"c","i","t","y">>, <<"s","t","a","t","e">>}, name) THEN PG_text
            ELSE PG_text
    IN typed(lower(column_name))

(***************************************************************************)
(* final_converter.py: clean_sql_content, extract_schema_and_name and the *)
(* return clause of convert_to_postgres.                                   *)
(***************************************************************************)

\* [kind |-> "error"] is a raised IndexError or ValueError
final_extract_schema_and_name(sql_content) ==
    LET named(names) ==
            IF Len(names) # 2 THEN [kind |-> "error"]
            ELSE [kind |-> "value", schema |-> names[1], name |-> names[2]]
        \* full_name = parts[-2].split("]")[0] + "." + parts[-1].split("]")[0]
        bracketed(pieces) ==
            IF Len(pieces) < 2 THEN [kind |-> "error"]
            ELSE named(split(split(pieces[Len(pieces) - 1], <<"]">>)[1] \o S_DOT
                             \o split(pieces[Len(pieces)], <<"]">>)[1], S_DOT))
        from(create_proc) ==
            IF create_proc = 0
            THEN [kind |-> "value", schema |-> <<"p","u","b","l","i","c">>, name |-> <<"u","n","k","n","o","w","n","_","p","r","o","c","e","d","u","r","e">>]
            ELSE bracketed(split(split(Tail_from(sql_content, create_proc), S_NL)[1], <<"[">>))
    IN from(find(S_CREATE_PROCEDURE, upper(sql_content), 1))

\* lines dropped by clean_sql_content
sql_server_commands == {<<"U","S","E"," ","[">>, <<"G","O">>, <<"S","E","T"," ","A","N","S","I","_","N","U","L","L","S">>, <<"S","E","T"," ","Q","U","O","T","E","D","_","I","D","E","N","T","I","F","I","E","R">>, <<"G","R","A","N","T"," ">>}

RECURSIVE cleaned_lines(_, _)
cleaned_lines(lines, i) ==
    IF i > Len(lines) THEN <<>>
    ELSE (IF any_in(sql_server_commands, upper(lines[i])) THEN <<>>
          ELSE IF strip(lines[i]) = <<>> THEN <<>>
          ELSE <<lines[i]>>) \o cleaned_lines(lines, i + 1)

clean_sql_content(sql_content) == join(S_NL, cleaned_lines(split(sql_content, S_NL), 1))

\* col.split()[0] raises IndexError for an entry without a word
prefix_raises(return_structure) ==
    /\ return_structure.kind # "none"
    /\ return_structure.val # <<>>
    /\ \E entry \in {split(return_structure.val, <<",","\n">>)[k] :
                        k \in 1..Len(split(return_structure.val, <<",","\n">>))} :
         split_ws(entry) = <<>>

\* a variant that compares the names as they are written
convert_parameters_with_prefix_as_written(params, return_structure) ==
    LET prefixed(return_cols) ==
            [k \in 1..Len(params) |->
               IF params[k].name \in return_cols
               THEN [name |-> <<"p","_">> \o params[k].name, type |-> params[k].type]
               ELSE params[k]]
        cols_of(entries) == {split_ws(entries[k])[1] : k \in 1..Len(entries)}
    IN IF return_structure.kind = "none" THEN params
       ELSE IF return_structure.val = <<>> THEN params
       ELSE prefixed(cols_of(split(return_structure.val, <<",","\n">>)))

\* params: a sequence of [name, type]; return_structure: [kind, val] with
\* [kind |-> "none"] for None
convert_parameters_with_prefix(params, return_structure) ==
    LET prefixed(return_cols) ==
            [k \in 1..Len(params) |->
               IF lower(params[k].name) \in return_cols
               THEN [name |-> <<"p","_">> \o params[k].name, type |-> params[k].type]
               ELSE params[k]]
        cols_of(entries) == {lower(split_ws(entries[k])[1]) : k \in 1..Len(entries)}
    IN IF return_structure.kind = "none" THEN params
       ELSE IF return_structure.val = <<>> THEN params
       ELSE prefixed(cols_of(split(return_structure.val, <<",","\n">>)))

\* the text an f-string renders for a value that may be None
fstring(v) == IF v.kind = "none" THEN <<"N","o","n","e">> ELSE v.val

\* convert_to_postgres of final_converter.py up to the prompt: the fields of
\* the request it sends; [kind |-> "error"] is the ValueError of the unpacking
final_request(sql_content, procedure_name) ==
    LET fields(names, clean_content, params, return_structure) ==
            IF Len(names) # 2 THEN [kind |-> "error"]
            ELSE [kind |-> "value",
                  schema_name |-> names[1],
                  proc_name |-> names[2],
                  clean_content |-> clean_content,
                  params |-> params,
                  param_text |-> join(<<",","\n"," "," "," "," ">>,
                                      [k \in 1..Len(params) |->
                                         params[k].name \o S_SPACE \o params[k].type]),
                  return_structure |-> return_structure]
        returning(names, clean_content, is_select, return_struct) ==
            fields(names, clean_content,
                   convert_parameters_with_prefix(extract_parameters(clean_content),
                                                  return_struct),
                   IF is_select
                   THEN <<"R","E","T","U","R","N","S"," ","T","A","B","L","E"," ","(","\n"," "," "," "," ">> \o fstring(return_struct) \o <<"\n",")">>
                   ELSE <<"R","E","T","U","R","N","S"," ","v","o","i","d">>)
        selecting(names, clean_content, is_select) ==
            returning(names, clean_content, is_select,
                      IF is_select THEN extract_return_structure(clean_content)
                      ELSE [kind |-> "value", val |-> <<>>])
        is_select_in(up) == contains(<<"S","E","L","E","C","T">>, up) /\ ~contains(<<"I","N","T","O">>, up)
        cleaned(names, clean_content) ==
            selecting(names, clean_content, is_select_in(upper(clean_content)))
    IN cleaned(split(replace(procedure_name, <<".","S","t","o","r","e","d","P","r","o","c","e","d","u","r","e",".","s","q","l">>, <<>>), S_DOT),
               clean_sql_content(sql_content))

(***************************************************************************)
(* replace_positional_params (convert_sql_refined.py).                     *)
(***************************************************************************)

\* the keys of param_map in insertion order: each name once, where first seen
RECURSIVE param_map_keys(_, _)
param_map_keys(params, i) ==
    IF i > Len(params) THEN <<>>
    ELSE (IF \E j \in 1..(i - 1) : params[j].name = params[i].name THEN <<>>
          ELSE <<params[i].name>>) \o param_map_keys(params, i + 1)

\* str(n) for 1 <= n <= 99
str_of(n) ==
    LET digit(d) == PrintableLow[17 + d]
    IN IF n < 10 THEN <<digit(n)>> ELSE <<digit(n \div 10), digit(n % 10)>>

\* param_map[name]: a later entry of the same name overwrites the earlier
param_map_value(params, name) ==
    <<"$">> \o str_of(Max({i \in 1..Len(params) : params[i].name = name}))

\* re.sub(rf"\b{param_name}\b", pos_placeholder, sql) for a name made of
\* word characters, from position i on, match by match
RECURSIVE sub_word(_, _, _, _)
sub_word(sql, param_name, pos_placeholder, i) ==
    LET from(j0) ==
            IF j0 = 0 THEN Tail_from(sql, i)
            ELSE SubSeq(sql, i, j0 - 1) \o pos_placeholder
                 \o sub_word(sql, param_name, pos_placeholder, j0 + Len(param_name))
    IN from(MinOr({j \in i..Len(sql) :
                     /\ OccursAt(param_name, sql, j)
                     /\ word_boundary(sql, j)
                     /\ word_boundary(sql, j + Len(param_name))}, 0))

\* for param_name, pos_placeholder in param_map.items(): from key k on
RECURSIVE replace_params_from(_, _, _, _)
replace_params_from(sql, params, keys, k) ==
    IF k > Len(keys) THEN sql
    ELSE replace_params_from(
             sub_word(sql, keys[k], param_map_value(params, keys[k]), 1),
             params, keys, k + 1)

replace_positional_params(sql, original_content) ==
    LET replaced(params) == replace_params_from(sql, params, param_map_keys(params, 1), 1)
    IN replaced(extract_parameters(original_content))

(***************************************************************************)
(* convert_to_postgres of final_converter.py: the post-processing of the  *)
(* rewrite engine's response.                                              *)
(***************************************************************************)

\* The grave accent cannot be written in a string of this notation; the
\* tilde, which no modelled text uses otherwise, stands for it.
GRAVE == "~"
FENCE == <<GRAVE, GRAVE, GRAVE>>
FENCE_SQL == FENCE \o <<"s","q","l">>

\* the first position >= i that holds no digit: where \d* stops
skip_digits(s, i) == MinOr({j \in i..Len(s) : s[j] \notin Digits}, Len(s) + 1)

\* re: numeric\s*\(\s*(\d+)\s*,\s*(\d+)\s*\) tried at position i
numeric_at(s, i) ==
    LET fields(open, p, p_end, comma, sc, sc_end, close) ==
            IF /\ OccursAt(PG_numeric, s, i)
               /\ open <= Len(s) /\ s[open] = "("
               /\ p_end > p
               /\ comma <= Len(s) /\ s[comma] = ","
               /\ sc_end > sc
               /\ close <= Len(s) /\ s[close] = ")"
            THEN [matched |-> TRUE,
                  old |-> SubSeq(s, i, close),
                  new |-> <<"n","u","m","e","r","i","c","(">> \o SubSeq(s, p, p_end - 1) \o S_COMMA
                          \o SubSeq(s, sc, sc_end - 1) \o <<")">>,
                  end |-> close + 1]
            ELSE [matched |-> FALSE, old |-> <<>>, new |-> <<>>, end |-> i + 1]
        scale_digits(open, p, p_end, comma, sc, sc_end) ==
            fields(open, p, p_end, comma, sc, sc_end, skip_ws(s, sc_end))
        scale(open, p, p_end, comma, sc) ==
            scale_digits(open, p, p_end, comma, sc, skip_digits(s, sc))
        separated(open, p, p_end, comma) == scale(open, p, p_end, comma, skip_ws(s, comma + 1))
        precision_digits(open, p, p_end) == separated(open, p, p_end, skip_ws(s, p_end))
        precision(open, p) == precision_digits(open, p, skip_digits(s, p))
        opened(open) == precision(open, skip_ws(s, open + 1))
    IN opened(skip_ws(s, i + 7))

\* re.finditer over s from position i on: the matches in order
RECURSIVE numeric_matches(_, _)
numeric_matches(s, i) ==
    LET rest(m) == <<m>> \o numeric_matches(s, m.end)
        from(j0) == IF j0 = 0 THEN <<>> ELSE rest(numeric_at(s, j0))
    IN from(MinOr({j \in i..Len(s) : numeric_at(s, j).matched}, 0))

\* the loop body  postgres_sql = postgres_sql.replace(old, new)  per match
RECURSIVE fix_numeric(_, _, _)
fix_numeric(postgres_sql, matches, k) ==
    IF k > Len(matches) THEN postgres_sql
    ELSE fix_numeric(replace(postgres_sql, matches[k].old, matches[k].new), matches, k + 1)

\* from response.json()["response"] to the returned text
final_post_process(response) ==
    LET fixed(no_brackets) == fix_numeric(no_brackets, numeric_matches(no_brackets, 1), 1)
        unfenced(stripped) ==
            IF contains(FENCE_SQL, stripped)
            THEN strip(split(split(stripped, FENCE_SQL)[2], FENCE)[1])
            ELSE stripped
    IN fixed(replace(replace(replace(unfenced(strip(response)),
                                     <<"G","E","T","D","A","T","E","(",")">>, <<"C","U","R","R","E","N","T","_","T","I","M","E","S","T","A","M","P">>),
                             <<"[">>, <<>>),
                     <<"]">>, <<>>))

(***************************************************************************)
(* format_function_definition (convert_sql_adjustments.py).                *)
(***************************************************************************)

\* ",\n    ".join(return_cols) applied to the str extract_return_structure
\* returned: join iterates over the characters of the str
join_characters(sep, text) == join(sep, [k \in 1..Len(text) |-> <<text[k]>>])

\* [kind |-> "error"] is a raised AttributeError or IndexError
format_function_definition(sql_content, schema_name, proc_name) ==
    LET with_grant(formatted_sql, grant) ==
            IF contains(<<"G","R","A","N","T">>, sql_content) THEN formatted_sql \o grant
            ELSE formatted_sql
        selected(cols) == join(<<","," ">>, [k \in 1..Len(cols) |-> split(cols[k], S_SPACE)[1]])
        formatted(params, param_text, return_cols, qualified) ==
            with_grant(
                <<"D","R","O","P"," ","F","U","N","C","T","I","O","N"," ","I","F"," ","E","X","I","S","T","S"," ">> \o qualified \o <<"(">> \o param_text \o <<")",";","\n">>
                \o <<"C","R","E","A","T","E"," ","O","R"," ","R","E","P","L","A","C","E"," ","F","U","N","C","T","I","O","N"," ">> \o qualified \o <<"(">> \o param_text \o <<")","\n">>
                \o <<" "," "," "," ","R","E","T","U","R","N","S"," ","T","A","B","L","E"," ","(","\n"," "," "," "," ">> \o return_cols \o <<"\n"," "," "," "," ",")","\n">>
                \o <<" "," "," "," ","S","T","A","B","L","E","\n"," "," "," "," ","A","S"," ","$","$","\n"," "," "," "," ","B","E","G","I","N","\n"," "," "," "," ","R","E","T","U","R","N"," ","Q","U","E","R","Y","\n">>
                \o <<" "," "," "," ","S","E","L","E","C","T"," ">> \o selected(split(return_cols, S_COMMA)) \o <<"\n">>
                \o <<" "," "," "," ","F","R","O","M"," ">> \o schema_name \o S_DOT \o split(proc_name, <<"_","b","y">>)[1] \o <<"\n">>
                \o <<" "," "," "," ","W","H","E","R","E"," ">> \o lower(params[1].name) \o <<" ","="," ","$","1","\n">>
                \o <<" "," "," "," ","O","R","D","E","R"," ","B","Y"," ","u","s","a","g","e","m","o","n","t","h","y","e","a","r",";","\n"," "," "," "," ","E","N","D",";","\n"," "," "," "," ","$","$"," ","L","A","N","G","U","A","G","E"," ","p","l","p","g","s","q","l",";">>,
                <<"\n","G","R","A","N","T"," ","S","E","L","E","C","T"," ","O","N"," ","F","U","N","C","T","I","O","N"," ">> \o qualified \o <<"(">> \o param_text
                \o <<")"," ","T","O"," ","a","r","i","s","_","w","e","b"," ","A","S"," ","d","b","o",";">>)
        of(params, extracted) ==
            IF extracted.kind = "none" THEN [kind |-> "error"]
            ELSE IF params = <<>> THEN [kind |-> "error"]
            ELSE [kind |-> "value",
                  val |-> formatted(params,
                                    join(<<","," ">>, [k \in 1..Len(params) |->
                                                  lower(params[k].name) \o S_SPACE
                                                  \o params[k].type]),
                                    join_characters(<<",","\n"," "," "," "," ">>, extracted.val),
                                    schema_name \o S_DOT \o proc_name)]
    IN of(extract_parameters(sql_content), extract_return_structure(sql_content))

(***************************************************************************)
(* batch_converter.py: convert_sql, one attempt at a time, and the file   *)
(* loop of process_directory.                                              *)
(***************************************************************************)

\* max_attempts of convert_sql
max_attempts == 3

\* the number of words below which convert_sql takes a response as truncated
MIN_WORDS == 50

\* extract_return_columns: the text "col type,\n    col type"
extract_return_columns(sql_content) ==
    LET entry(col_name) == col_name \o S_SPACE \o infer_column_type(col_name)
        column(col) ==
            entry(strip(IF contains(S_DOT, col) THEN last(split(col, S_DOT)) ELSE col))
        columns(parts) == [k \in 1..Len(parts) |-> column(strip(parts[k]))]
        of_match(select_match) ==
            IF ~select_match.matched THEN <<>>
            ELSE join(<<",","\n"," "," "," "," ">>, columns(split(select_match.text, S_COMMA)))
    IN of_match(lazy_between(sql_content, <<"S","E","L","E","C","T">>, <<"F","R","O","M">>))

\* the fields convert_sql renders into the prompt of its request
batch_request(sql_content, schema_name, proc_name) ==
    LET fields(has_select, up) ==
            [schema_name |-> schema_name,
             proc_name |-> proc_name,
             sql_content |-> sql_content,
             params |-> IF has_select THEN extract_params(sql_content)
                        ELSE <<"/","*"," ","p","a","r","a","m","e","t","e","r","s"," ","*","/">>,
             returns |-> IF has_select
                         THEN <<"T","A","B","L","E"," ","(">> \o extract_return_columns(sql_content) \o <<")">>
                         ELSE <<"v","o","i","d">>,
             has_variables |-> contains(<<"D","E","C","L","A","R","E">>, up),
             has_transaction |-> contains(<<"B","E","G","I","N"," ","T","R","A","N","S","A","C","T","I","O","N">>, up)]
        of(up) == fields(contains(<<"S","E","L","E","C","T">>, up), up)
    IN of(upper(sql_content))

\* len(s.split()): the number of maximal runs of non-whitespace
word_count(s) ==
    Cardinality({i \in 1..Len(s) :
                   s[i] \notin Whitespace /\ (i = 1 \/ s[i - 1] \in Whitespace)})

\* len(converted.split()) < 50 or not converted.endswith("$function$;")
appears_truncated(converted) ==
    word_count(converted) < MIN_WORDS \/ ~endswith(converted, <<"$","f","u","n","c","t","i","o","n","$",";">>)

\* the text convert_sql builds in place of a response it takes as truncated
structured_response(sql_content, schema_name, proc_name) ==
    LET built(cols) ==
            <<"C","R","E","A","T","E"," ","O","R"," ","R","E","P","L","A","C","E"," ","F","U","N","C","T","I","O","N"," ">> \o schema_name \o S_DOT \o proc_name
            \o <<"(","\n"," "," "," "," ","P","r","o","f","i","l","e","I","D"," ","i","n","t","e","g","e","r","\n",")","\n","R","E","T","U","R","N","S"," ","T","A","B","L","E"," ","(","\n"," "," "," "," ">>
            \o join(<<","," ">>, [k \in 1..Len(cols) |->
                             cols[k] \o S_SPACE \o infer_column_type(cols[k])])
            \o <<"\n",")","\n","L","A","N","G","U","A","G","E"," ","p","l","p","g","s","q","l","\n","A","S"," ","$","f","u","n","c","t","i","o","n","$","\n","B","E","G","I","N","\n"," "," "," "," ","R","E","T","U","R","N"," ","Q","U","E","R","Y","\n"," "," "," "," ","S","E","L","E","C","T","\n"," "," "," "," "," "," "," "," ">>
            \o join(<<","," ">>, cols)
            \o <<"\n"," "," "," "," ","F","R","O","M"," ","a","k","w","a","r","m",".","v","_","A","l","l","R","a","t","i","n","g","P","e","r","H","o","m","e","\n"," "," "," "," ","W","H","E","R","E"," ","P","r","o","f","i","l","e","I","D"," ","="," ","$","1",";","\n","E","N","D",";","\n","$","f","u","n","c","t","i","o","n","$",";">>
    IN built(extract_select_columns(sql_content))

\* re.sub(r"```sql\s*|\s*```", "", s): the leftmost match starts at the
\* whitespace before a fence, so "\n```sql" loses the fence and keeps "sql"
RECURSIVE remove_fences(_)
remove_fences(s) ==
    LET cut(p, q) ==
            SubSeq(s, 1, p - 1)
            \o remove_fences(Tail_from(s, IF p = q /\ OccursAt(FENCE_SQL, s, q)
                                          THEN skip_ws(s, q + Len(FENCE_SQL))
                                          ELSE q + Len(FENCE)))
        at(q) == IF q = 0 THEN s
                 ELSE cut(1 + MaxOr({k \in 1..(q - 1) : s[k] \notin Whitespace}, 0), q)
    IN at(find(FENCE, s, 1))

\* re.sub(r"\s+", " ", s)
normalize_spaces(s) ==
    LET spaced(kept) ==
            [k \in 1..Len(kept) |-> IF s[kept[k]] \in Whitespace THEN " " ELSE s[kept[k]]]
    IN spaced(SelectSeq([i \in 1..Len(s) |-> i],
                        LAMBDA i : \/ s[i] \notin Whitespace
                                   \/ i = 1
                                   \/ s[i - 1] \notin Whitespace))

\* re.sub(r"(\S)\(", r"\1 (", s) on the parts of s.split("("): whether the
\* k-th parenthesis gets a space.  A parenthesis that closed a match cannot
\* open the next one.
RECURSIVE paren_spaced(_, _)
paren_spaced(parts, k) ==
    IF parts[k] # <<>> THEN last(parts[k]) \notin Whitespace
    ELSE IF k = 1 THEN FALSE
    ELSE ~paren_spaced(parts, k - 1)

RECURSIVE space_parens_from(_, _)
space_parens_from(parts, k) ==
    IF k >= Len(parts) THEN <<>>
    ELSE (IF paren_spaced(parts, k) THEN <<" ","(">> ELSE <<"(">>) \o parts[k + 1]
         \o space_parens_from(parts, k + 1)

space_parens(s) ==
    LET of(parts) == parts[1] \o space_parens_from(parts, 1)
    IN of(split(s, <<"(">>))

\* re.sub(r"\s*,\s*", ", ", s)
normalize_commas(s) ==
    LET rstrip(t) == SubSeq(t, 1, MaxOr({k \in 1..Len(t) : t[k] \notin Whitespace}, 0))
        lstrip(t) == Tail_from(t, skip_ws(t, 1))
        trimmed(parts) ==
            [k \in 1..Len(parts) |->
               IF Len(parts) = 1 THEN parts[k]
               ELSE IF k = 1 THEN rstrip(parts[k])
               ELSE IF k = Len(parts) THEN lstrip(parts[k])
               ELSE strip(parts[k])]
    IN join(<<","," ">>, trimmed(split(s, S_COMMA)))

\* the replacement both formatting lambdas build around group 2
one_per_line(opening, group, closing) ==
    opening \o <<"\n"," "," "," "," ">> \o join(<<",","\n"," "," "," "," ">>, split(group, S_COMMA)) \o S_NL \o closing

\* re.sub(r"(RETURNS TABLE \()([^)]+)(\))", lambda, s)
RECURSIVE format_returns_table(_)
format_returns_table(s) ==
    LET opening == <<"R","E","T","U","R","N","S"," ","T","A","B","L","E"," ","(">>
        closed(i, g, e) ==
            IF e = 0 THEN s
            ELSE IF e = g
            THEN SubSeq(s, 1, i) \o format_returns_table(Tail_from(s, i + 1))
            ELSE SubSeq(s, 1, i - 1)
                 \o one_per_line(opening, SubSeq(s, g, e - 1), <<")">>)
                 \o format_returns_table(Tail_from(s, e + 1))
        opened(i, g) == closed(i, g, find(<<")">>, s, g))
        at(i) == IF i = 0 THEN s ELSE opened(i, i + Len(opening))
    IN at(find(opening, s, 1))

\* re.sub(r"(SELECT\s+)([^;]+)(FROM)", lambda, s): group 2 is greedy, so it
\* runs to the last FROM before the next semicolon
RECURSIVE format_select(_)
format_select(s) ==
    LET matched(i, g, f) ==
            IF f = 0
            THEN SubSeq(s, 1, i) \o format_select(Tail_from(s, i + 1))
            ELSE SubSeq(s, 1, i - 1)
                 \o one_per_line(SubSeq(s, i, g - 1), SubSeq(s, g, f - 1), <<"F","R","O","M">>)
                 \o format_select(Tail_from(s, f + 4))
        \* g: where group 2 starts; the greedy \s+ gives its last character
        \* back when FROM follows it at once
        grouped(i, g, e) ==
            IF MaxOr({f \in (g + 1)..(e - 4) : OccursAt(<<"F","R","O","M">>, s, f)}, 0) # 0
            THEN matched(i, g, MaxOr({f \in (g + 1)..(e - 4) : OccursAt(<<"F","R","O","M">>, s, f)}, 0))
            ELSE IF g > i + 7 /\ g <= e - 4 /\ OccursAt(<<"F","R","O","M">>, s, g)
            THEN matched(i, g - 1, g)
            ELSE matched(i, g, 0)
        spaced(i, g) ==
            IF g = i + 6 THEN matched(i, g, 0)
            ELSE grouped(i, g, MinOr({e \in g..Len(s) : s[e] = ";"}, Len(s) + 1))
        at(i) == IF i = 0 THEN s ELSE spaced(i, skip_ws(s, i + 6))
    IN at(find(<<"S","E","L","E","C","T">>, s, 1))

\* lines 275-300 of convert_sql
format_converted(converted) ==
    format_select(format_returns_table(
        normalize_commas(space_parens(normalize_spaces(converted)))))

\* the text of the exception a failed write of the output file raises
S_WRITE_ERROR == <<"[","E","r","r","n","o"," ","2","8","]"," ","N","o"," ","s","p","a","c","e"," ","l","e","f","t"," ","o","n"," ","d","e","v","i","c","e">>

\* process_directory with the except branch recording nothing
recorded_unless_raised(results, file_name, postgres_sql, written) ==
    IF postgres_sql.kind = "none" \/ postgres_sql.val = <<>>
    THEN [results EXCEPT !.failed = Append(@, [file |-> file_name,
                                               reason |-> <<"C","o","n","v","e","r","s","i","o","n"," ","f","a","i","l","e","d">>])]
    ELSE IF ~written
    THEN results
    ELSE [results EXCEPT
            !.successful = Append(@, [file |-> file_name,
                                      output |-> replace(file_name, <<".","S","t","o","r","e","d","P","r","o","c","e","d","u","r","e",".","s","q","l">>,
                                                         <<"_","p","o","s","t","g","r","e","s",".","s","q","l">>)])]

\* what process_directory records for a file after convert_sql returned
\* postgres_sql: failed when it is None or empty, failed with the text of
\* the exception when writing the output raised, successful otherwise
recorded(results, file_name, postgres_sql, written) ==
    IF postgres_sql.kind = "none" \/ postgres_sql.val = <<>>
    THEN [results EXCEPT !.failed = Append(@, [file |-> file_name,
                                               reason |-> <<"C","o","n","v","e","r","s","i","o","n"," ","f","a","i","l","e","d">>])]
    ELSE IF ~written
    THEN [results EXCEPT !.failed = Append(@, [file |-> file_name,
                                               reason |-> S_WRITE_ERROR])]
    ELSE [results EXCEPT
            !.successful = Append(@, [file |-> file_name,
                                      output |-> replace(file_name, <<".","S","t","o","r","e","d","P","r","o","c","e","d","u","r","e",".","s","q","l">>,
                                                         <<"_","p","o","s","t","g","r","e","s",".","s","q","l">>)])]

\* lines 234-267 of convert_sql: what an answer with status 200 becomes,
\* and the verdict of validate_converted_sql on it
received(response, sql_content, schema_name, proc_name) ==
    LET checked(stripped, converted) ==
            [truncated |-> appears_truncated(stripped),
             converted |-> converted,
             verdict |-> validate_converted_sql(converted, sql_content,
                                                schema_name, proc_name)]
        cleaned(stripped, converted) ==
            checked(stripped,
                    remove_fences(replace(replace(converted, <<"[">>, <<>>), <<"]">>, <<>>)))
        of(stripped) ==
            cleaned(stripped,
                    IF appears_truncated(stripped)
                    THEN structured_response(sql_content, schema_name, proc_name)
                    ELSE stripped)
    IN of(strip(response))

(***************************************************************************)
(* convert_sql.py: extract_parameters, validate_conversion and the        *)
(* request loop of convert_to_postgres.                                    *)
(***************************************************************************)

\* the type keywords a line must contain to be taken as a parameter
cs_param_line_types == {T_int, T_varchar, T_varbinary}

\* type_str = param.split(" ")[-1].lower() and the chain of type tests
cs_map_type(type_str) ==
    IF contains(T_varbinary, type_str) THEN PG_bytea
    ELSE IF contains(T_varchar, type_str) \/ contains(T_nvarchar, type_str) THEN PG_text
    ELSE IF contains(T_int, type_str) THEN PG_integer
    ELSE type_str

\* the body of the last branch of the loop: one (name, type) pair of a line
cs_param_of_line(line) ==
    LET words(parts) == cs_map_type(lower(parts[Len(parts)]))
        pair(param) == [name |-> split(split(param, S_AT)[2], S_SPACE)[1],
                        type |-> words(split(param, S_SPACE))]
    IN pair(param_text_of(line))

\* the loop over the lines, from line i on, with the flag in_params
RECURSIVE cs_extract_parameters_from(_, _, _)
cs_extract_parameters_from(lines, i, in_params) ==
    LET step(line) ==
            IF contains(S_CREATE_PROCEDURE, line)
            THEN cs_extract_parameters_from(lines, i + 1, TRUE)
            ELSE IF in_params /\ contains(S_AS, line)
            THEN <<>>
            ELSE IF /\ in_params
                    /\ contains(S_AT, line)
                    /\ \E typ \in cs_param_line_types : contains(typ, lower(line))
            THEN <<cs_param_of_line(line)>> \o cs_extract_parameters_from(lines, i + 1, in_params)
            ELSE cs_extract_parameters_from(lines, i + 1, in_params)
    IN IF i > Len(lines) THEN <<>> ELSE step(strip(lines[i]))

cs_extract_parameters(sql_content) ==
    cs_extract_parameters_from(split(sql_content, S_NL), 1, FALSE)

\* the table of one word of a line: word.strip("[].,;()") with dbo. replaced
table_of_word(word, schema_name) ==
    LET named(table) == IF contains(<<"d","b","o",".">>, table)
                        THEN replace(table, <<"d","b","o",".">>, schema_name \o S_DOT)
                        ELSE table
    IN named(strip_chars(word, {"[", "]", ".", ",", ";", "(", ")"}))

\* the tables of one line: the words with a dot of a line with FROM, UPDATE or INTO
tables_of_line(line, schema_name) ==
    LET of(words) == {table_of_word(words[k], schema_name) :
                        k \in {j \in 1..Len(words) : contains(S_DOT, words[j])}}
        when(up) == IF contains(<<"F","R","O","M">>, up) \/ contains(<<"U","P","D","A","T","E">>, up) \/ contains(<<"I","N","T","O">>, up)
                    THEN of(split_ws(line))
                    ELSE {}
    IN when(upper(line))

\* original_tables: the set built by the loop over the lines of original_sql
original_tables(original_sql, schema_name) ==
    LET of(lines) == UNION {tables_of_line(lines[i], schema_name) : i \in 1..Len(lines)}
    IN of(split(original_sql, S_NL))

\* the orders in which the loop over the set original_tables can visit it
table_orders(tables) ==
    {order \in [1..Cardinality(tables) -> tables] :
        {order[i] : i \in 1..Len(order)} = tables}

\* the structure checks: the marker that must occur and the error otherwise
structure_checks ==
    << [marker |-> <<"C","R","E","A","T","E"," ","O","R"," ","R","E","P","L","A","C","E"," ","F","U","N","C","T","I","O","N">>, error |-> <<"M","i","s","s","i","n","g"," ","f","u","n","c","t","i","o","n"," ","d","e","c","l","a","r","a","t","i","o","n">>],
       [marker |-> <<"L","A","N","G","U","A","G","E"," ","p","l","p","g","s","q","l">>,           error |-> <<"M","i","s","s","i","n","g"," ","l","a","n","g","u","a","g","e"," ","s","p","e","c","i","f","i","c","a","t","i","o","n">>],
       [marker |-> <<"$","f","u","n","c","t","i","o","n","$">>,                 error |-> <<"M","i","s","s","i","n","g"," ","f","u","n","c","t","i","o","n"," ","d","e","l","i","m","i","t","e","r">>],
       [marker |-> <<"B","E","G","I","N">>,                      error |-> <<"M","i","s","s","i","n","g"," ","B","E","G","I","N"," ","s","t","a","t","e","m","e","n","t">>],
       [marker |-> <<"E","N","D",";">>,                       error |-> <<"M","i","s","s","i","n","g"," ","E","N","D"," ","s","t","a","t","e","m","e","n","t">>] >>

\* the text E'\n' of the messages for CHAR(13) and CHAR(10)
S_E_NEWLINE == <<"E","'">> \o <<"\\", "n">> \o <<"'">>

sql_server_elements ==
    << [element |-> <<"S","E","T"," ","N","O","C","O","U","N","T"," ","O","N">>,   message |-> <<"R","e","m","o","v","e"," ","S","E","T"," ","N","O","C","O","U","N","T"," ","O","N">>],
       [element |-> <<"G","O">>,               message |-> <<"R","e","m","o","v","e"," ","G","O"," ","s","t","a","t","e","m","e","n","t">>],
       [element |-> <<"@">>,                message |-> <<"R","e","m","o","v","e"," ","@"," ","f","r","o","m"," ","v","a","r","i","a","b","l","e"," ","n","a","m","e","s">>],
       [element |-> <<"g","e","t","d","a","t","e","(",")">>,        message |-> <<"U","s","e"," ","n","o","w","(",")"," ","i","n","s","t","e","a","d">>],
       [element |-> <<"d","b","o",".">>,             message |-> <<"U","s","e"," ","c","o","r","r","e","c","t"," ","s","c","h","e","m","a">>],
       [element |-> <<"@","@","F","E","T","C","H","_","S","T","A","T","U","S">>,   message |-> <<"U","s","e"," ","F","O","U","N","D"," ","i","n","s","t","e","a","d">>],
       [element |-> <<"l","e","n","(">>,             message |-> <<"U","s","e"," ","l","e","n","g","t","h","(",")"," ","i","n","s","t","e","a","d">>],
       [element |-> <<"S","C","O","P","E","_","I","D","E","N","T","I","T","Y","(",")">>, message |-> <<"U","s","e"," ","l","a","s","t","v","a","l","(",")"," ","i","n","s","t","e","a","d">>],
       [element |-> <<"[">>,                message |-> <<"R","e","m","o","v","e"," ","s","q","u","a","r","e"," ","b","r","a","c","k","e","t","s">>],
       [element |-> <<"]">>,                message |-> <<"R","e","m","o","v","e"," ","s","q","u","a","r","e"," ","b","r","a","c","k","e","t","s">>],
       [element |-> <<"C","H","A","R","(","1","3",")">>,         message |-> <<"U","s","e"," ">> \o S_E_NEWLINE \o <<" ","i","n","s","t","e","a","d">>],
       [element |-> <<"C","H","A","R","(","1","0",")">>,         message |-> <<"U","s","e"," ">> \o S_E_NEWLINE \o <<" ","i","n","s","t","e","a","d">>] >>

\* validation_errors: the list validate_conversion collects, the loop over
\* the set of tables taken in the order tables
validation_errors(postgres_sql, original_sql, tables) ==
    LET structure(missing) == [i \in 1..Len(missing) |-> missing[i].error]
        parameters(missing) ==
            [i \in 1..Len(missing) |-> <<"M","i","s","s","i","n","g"," ","p","a","r","a","m","e","t","e","r",":"," ">> \o missing[i].name]
        references(missing) ==
            [i \in 1..Len(missing) |-> <<"M","i","s","s","i","n","g"," ","o","r"," ","m","o","d","i","f","i","e","d"," ","t","a","b","l","e"," ","r","e","f","e","r","e","n","c","e",":"," ">> \o missing[i]]
        syntax(found) ==
            [i \in 1..Len(found) |-> <<"C","o","n","t","a","i","n","s"," ","S","Q","L"," ","S","e","r","v","e","r"," ","s","y","n","t","a","x",":"," ">> \o found[i].message]
    IN structure(SelectSeq(structure_checks, LAMBDA c : ~contains(c.marker, postgres_sql)))
       \o parameters(SelectSeq(cs_extract_parameters(original_sql),
                               LAMBDA p : ~contains(p.name, postgres_sql)))
       \o references(SelectSeq(tables, LAMBDA t : ~contains(t, postgres_sql)))
       \o syntax(SelectSeq(sql_server_elements, LAMBDA e : contains(e.element, postgres_sql)))

\* the bounds of the two loops of convert_to_postgres
max_retries == 3
max_timeout_retries == 3

\* schema_name = procedure_name.split(".")[0]
cs_schema_name(procedure_name) == split(procedure_name, S_DOT)[1]

\* validate_conversion with the verdict taken from the structure, parameter
\* and table checks alone
validate_conversion_syntax_ignored(postgres_sql, procedure_name, original_sql, tables, failures) ==
    LET result(errors) ==
            [valid |-> \A k \in 1..Len(errors) :
                          ~startswith(errors[k], <<"C","o","n","t","a","i","n","s"," ","S","Q","L"," ","S","e","r","v","e","r"," ","s","y","n","t","a","x",":"," ">>),
             errors |-> errors,
             failures |-> IF errors # <<>>
                          THEN Append(failures, [procedure_name |-> procedure_name,
                                                 errors |-> errors])
                          ELSE failures]
    IN result(validation_errors(postgres_sql, original_sql, tables))

\* validate_conversion: the verdict, the list it collected and what the
\* call leaves in conversion_failures["validation_errors"]
validate_conversion(postgres_sql, procedure_name, original_sql, tables, failures) ==
    LET result(errors) ==
            [valid |-> errors = <<>>,
             errors |-> errors,
             failures |-> IF errors # <<>>
                          THEN Append(failures, [procedure_name |-> procedure_name,
                                                 errors |-> errors])
                          ELSE failures]
    IN result(validation_errors(postgres_sql, original_sql, tables))

(***************************************************************************)
(* convert_sql_refined.py: convert_to_postgres, its retry loop and the    *)
(* post-processing of a response (extract_sql_body,                       *)
(* replace_positional_params, format_final_sql).                          *)
(***************************************************************************)

RETRY_MAX == 3

\* the size above which convert_to_postgres hands over to handle_large_file
LARGE_FILE_SIZE == 4000

\* test_response.status_code != 200 raises; 200 lets the request follow
healthy_whatever(status_code) == TRUE

healthy(status_code) == status_code = 200

\* response_text[start:end] from the marker to the last semicolon
extract_sql_body(response_text) ==
    LET from(start, end) ==
            IF start < 1 \/ start > end THEN <<>>
            ELSE SubSeq(response_text, start, end)
        \* find gave -1 when start = 0: the slice starts at the last character
        slice(start, end) ==
            from(IF start = 0 THEN Len(response_text) ELSE start, end)
    IN slice(find(S_DECLARATION_MARKER, response_text, 1), rfind(<<";">>, response_text))

\* "    " * n
RECURSIVE indent(_)
indent(n) == IF n <= 0 THEN <<>> ELSE <<" "," "," "," ">> \o indent(n - 1)

\* one pass of the loop of format_final_sql: the line appended for the
\* stripped line (none for an empty one) and the flags in_cte, in_select and
\* the counter cte_level after it
format_line(stripped, in_cte, in_select, cte_level) ==
    LET next(out, cte, select, level) ==
            [out |-> out, in_cte |-> cte, in_select |-> select, cte_level |-> level]
        keep(out) == next(<<out>>, in_cte, in_select, cte_level)
        standard(ends, level) ==
            next(<<indent(cte_level) \o stripped>>,
                 IF ends /\ level = 0 THEN FALSE ELSE in_cte,
                 IF ends THEN FALSE ELSE in_select,
                 level)
        rule(up) ==
            IF stripped = <<>> THEN next(<<>>, in_cte, in_select, cte_level)
            ELSE IF contains(S_DECLARATION_MARKER, stripped) THEN keep(stripped)
            ELSE IF startswith(stripped, <<"_">>) /\ ~contains(<<")">>, stripped)
            THEN keep(<<" "," "," "," ">> \o stripped)
            ELSE IF startswith(up, <<"W","I","T","H"," ">>)
            THEN next(<<S_NL \o stripped>>, TRUE, in_select, 1)
            ELSE IF in_cte /\ endswith(stripped, <<" ","A","S"," ","(">>)
            THEN next(<<indent(cte_level) \o stripped>>, in_cte, in_select, cte_level + 1)
            ELSE IF in_cte /\ stripped = <<")",",">>
            THEN next(<<indent(cte_level - 1) \o stripped>>, in_cte, in_select, cte_level - 1)
            ELSE IF startswith(up, <<"S","E","L","E","C","T">>)
            THEN next(<<indent(cte_level) \o <<"S","E","L","E","C","T">>>>, in_cte, TRUE, cte_level)
            ELSE IF startswith(up, <<"F","R","O","M">>)
            THEN keep(indent(cte_level) \o <<"F","R","O","M">>)
            ELSE IF \E j \in {<<"L","E","F","T"," ","J","O","I","N">>, <<"I","N","N","E","R"," ","J","O","I","N">>, <<"R","I","G","H","T"," ","J","O","I","N">>} : startswith(up, j)
            THEN keep(indent(cte_level) \o stripped)
            ELSE IF startswith(up, <<"W","H","E","R","E">>)
            THEN keep(indent(cte_level) \o <<"W","H","E","R","E"," ">> \o Tail_from(stripped, 7))
            ELSE IF startswith(up, <<"C","A","S","E">>)
            THEN keep(indent(cte_level + 1) \o stripped)
            ELSE IF up = <<"E","N","D">>
            THEN keep(indent(cte_level) \o stripped)
            ELSE IF in_select /\ ~\E clause \in {<<"F","R","O","M">>, <<"W","H","E","R","E">>, <<"G","R","O","U","P"," ","B","Y">>, <<"O","R","D","E","R"," ","B","Y">>} :
                                     contains(clause, up)
            THEN keep(indent(cte_level + 1) \o stripped)
            ELSE standard(endswith(stripped, <<";">>),
                          IF endswith(stripped, <<";">>) /\ in_cte
                          THEN cte_level - 1 ELSE cte_level)
    IN rule(upper(stripped))

\* the loop of format_final_sql over the lines from line i on
RECURSIVE format_lines_from(_, _, _, _, _)
format_lines_from(lines, i, in_cte, in_select, cte_level) ==
    LET after(r) ==
            r.out \o format_lines_from(lines, i + 1, r.in_cte, r.in_select, r.cte_level)
    IN IF i > Len(lines) THEN <<>>
       ELSE after(format_line(strip(lines[i]), in_cte, in_select, cte_level))

\* re.sub(r"\s+;", ";", s)
spaces_before_semicolon(s) ==
    LET chars(kept) == [k \in 1..Len(kept) |-> s[kept[k]]]
    IN chars(SelectSeq([i \in 1..Len(s) |-> i],
                       LAMBDA i : \/ s[i] \notin Whitespace
                                  \/ skip_ws(s, i) > Len(s)
                                  \/ s[skip_ws(s, i)] # ";"))

\* re.sub(r"\(\s+\)", "()", s)
empty_parentheses(s) ==
    LET before(i) == MaxOr({j \in 1..(i - 1) : s[j] \notin Whitespace}, 0)
        chars(kept) == [k \in 1..Len(kept) |-> s[kept[k]]]
    IN chars(SelectSeq([i \in 1..Len(s) |-> i],
                       LAMBDA i : \/ s[i] \notin Whitespace
                                  \/ skip_ws(s, i) > Len(s)
                                  \/ s[skip_ws(s, i)] # ")"
                                  \/ before(i) = 0
                                  \/ s[before(i)] # "("))

\* format_final_sql; the modelled texts hold no line boundary but "\n"
format_final_sql(sql) ==
    empty_parentheses(spaces_before_semicolon(
        join(S_NL, format_lines_from(split(sql, S_NL), 1, FALSE, FALSE, 0))))

\* attempt += 1 and the test of the while loop: where the function is after
\* an attempt that returned nothing
after_attempt(attempt) ==
    IF attempt + 1 < RETRY_MAX THEN "checking" ELSE "returned"

\* lines 394-405 of convert_to_postgres: what a response with status 200
\* becomes, a rejected attempt when it lacks the declaration marker
refined_result(response_text, sql_content) ==
    LET of(result) ==
            IF result # <<>> /\ contains(S_DECLARATION_MARKER, result)
            THEN [kind |-> "value",
                  val |-> format_final_sql(
                              replace_positional_params(extract_sql_body(result),
                                                        sql_content))]
            ELSE [kind |-> "none"]
    IN of(strip(response_text))

(***************************************************************************)
(* The procedure definitions the operations are applied to.  A definition *)
(* is built from a declaration layout, a list of declared parameters and  *)
(* a body, so that what a text declares is known.                         *)
(***************************************************************************)
SeqsUpTo(S, n) == UNION {[1..k -> S] : k \in 0..n}
NonEmptySeqsUpTo(S, n) == UNION {[1..k -> S] : k \in 1..n}

\* declared parameters: name and source type token
ParamDecls ==
    { [name |-> <<"U","s","e","r","I","d">>,    type |-> <<"i","n","t">>],
      [name |-> <<"I","s","A","c","t","i","v","e">>,  type |-> <<"b","i","t">>],
      [name |-> <<"A","m","o","u","n","t">>,    type |-> <<"n","u","m","e","r","i","c","(","1","0",",","2",")">>],
      [name |-> <<"R","a","t","e">>,      type |-> <<"f","l","o","a","t">>],
      [name |-> <<"C","A","S","N","u","m","b","e","r">>, type |-> <<"v","a","r","c","h","a","r","(","2","0",")">>],
      [name |-> <<"p","_","U","s","e","r","I","d">>,  type |-> <<"i","n","t">>] }

DeclText(d) == S_AT \o d.name \o S_SPACE \o d.type

DeclTexts(decls) == [i \in 1..Len(decls) |-> DeclText(decls[i])]

\* parameter lists of pairwise different names
DeclLists ==
    {decls \in NonEmptySeqsUpTo(ParamDecls, MaxParams) :
        \A i, j \in 1..Len(decls) : i # j => decls[i].name # decls[j].name}

S_HEADER == <<"C","R","E","A","T","E"," ","P","R","O","C","E","D","U","R","E"," ","[","d","b","o","]",".","[","G","e","t","F","o","o","]">>

Layouts == {"line_each", "same_line", "one_line"}

\* the text of a procedure that declares decls in the given layout
ProcText(layout, decls, body) ==
    IF layout = "line_each"
    THEN S_HEADER \o <<"\n"," "," "," "," ">> \o join(<<",","\n"," "," "," "," ">>, DeclTexts(decls)) \o <<"\n","A","S","\n">> \o body
    ELSE IF layout = "same_line"
    THEN S_HEADER \o <<" ","(">> \o join(<<","," ">>, DeclTexts(decls)) \o <<")"," ","A","S"," ">> \o body
    ELSE S_HEADER \o <<"\n">> \o join(<<","," ">>, DeclTexts(decls)) \o <<"\n","A","S","\n">> \o body

\* projection fragments: the source text and the column name it defines
ColumnFrags ==
    { [text |-> <<"b">>,                name |-> <<"b">>],
      [text |-> <<"a",".","x"," ","A","S"," ","y">>,         name |-> <<"y">>],
      [text |-> <<"c">>,                name |-> <<"c">>],
      [text |-> <<"I","S","N","U","L","L","(","a",",","0",")"," ","A","S"," ","z">>, name |-> <<"z">>] }

ColumnLists ==
    {cols \in NonEmptySeqsUpTo(ColumnFrags, MaxColumns) :
        \A i, j \in 1..Len(cols) : i # j => cols[i].name # cols[j].name}

ColumnTexts(cols) == [i \in 1..Len(cols) |-> cols[i].text]
ColumnNames(cols) == [i \in 1..Len(cols) |-> cols[i].name]

\* bodies: a projection with its row source, a projection without one, and
\* a statement without projection
BodyShapes == {"select_from", "select_only", "no_select"}

BodyText(shape, cols) ==
    IF shape = "select_from" THEN <<"S","E","L","E","C","T"," ">> \o join(<<","," ">>, ColumnTexts(cols)) \o <<" ","F","R","O","M"," ","t">>
    ELSE IF shape = "select_only" THEN <<"S","E","L","E","C","T"," ">> \o join(<<","," ">>, ColumnTexts(cols))
    ELSE <<"U","P","D","A","T","E"," ","t"," ","S","E","T"," ">> \o cols[1].name \o <<" ","="," ","1">>

S_BODY == <<"S","E","L","E","C","T"," ","U","s","e","r","I","d",","," ","I","s","A","c","t","i","v","e",","," ","C","r","e","a","t","e","d","D","a","t","e"," ","F","R","O","M"," ","F","o","o">>

\* bodies of the synthesis operations
Bodies ==
    { S_BODY,
      <<"S","E","L","E","C","T"," ","1">>,
      <<"U","P","D","A","T","E"," ","F","o","o"," ","S","E","T"," ","I","s","A","c","t","i","v","e"," ","="," ","0">>,
      <<"I","N","S","E","R","T"," ","I","N","T","O"," ","L","o","g"," ","S","E","L","E","C","T"," ","U","s","e","r","I","d"," ","F","R","O","M"," ","F","o","o">> }

OneParam == <<[name |-> <<"U","s","e","r","I","d">>, type |-> <<"i","n","t">>]>>

\* a body between BEGIN and END, the only kind handle_large_file converts,
\* with an assignment to a variable and a bracketed dbo qualifier
S_BLOCK_BODY == <<"B","E","G","I","N","\n","S","E","T"," ","@","T","o","t","a","l"," ","="," ","1","\n","S","E","L","E","C","T"," ","*"," ","F","R","O","M"," ","[","d","b","o","]",".","[","F","o","o","]"," ","W","H","E","R","E"," ","I","d"," ","="," ","@","U","s","e","r","I","d","\n","E","N","D">>

LargeFileBodies == {S_BLOCK_BODY}

\* source type tokens, and the rest of a line that declares further
\* parameters after the first ("@A varchar(20), @p int")
BaseTypes ==
    { <<"i","n","t">>, <<"b","i","t">>, <<"V","A","R","C","H","A","R","(","2","0",")">>, <<"n","v","a","r","c","h","a","r","(","5","0",")">>, <<"v","a","r","b","i","n","a","r","y","(","8",")">>,
      <<"d","e","c","i","m","a","l","(","1","0",",","2",")">>, <<"m","o","n","e","y">>, <<"D","a","t","e","T","i","m","e">>, <<"f","l","o","a","t">> }

TypeTokens ==
    {join(<<","," ","@","p"," ">>, types) : types \in NonEmptySeqsUpTo(BaseTypes, MaxTypes)}

\* column names given to infer_column_type
InferNames ==
    { <<"U","s","e","r","I","d">>, <<"I","s","A","c","t","i","v","e">>, <<"H","a","s","A","c","c","e","s","s">>, <<"S","t","a","r","t","T","i","m","e">>, <<"C","r","e","a","t","e","d","D","a","t","e">>,
      <<"U","p","d","a","t","e","T","y","p","e">>, <<"T","o","t","a","l","C","o","s","t">>, <<"R","a","t","i","o">>, <<"P","e","r","c","e","n","t">>, <<"B","u","i","l","d","Y","e","a","r">>,
      <<"N","a","m","e">>, <<"P","a","i","d">>, <<"A","m","o","u","n","t">>, <<"C","i","t","y">>, <<"x">> }

\* what may stand where the declaration is expected
DeclHeaders ==
    { [text |-> <<"C","R","E","A","T","E"," ","P","R","O","C","E","D","U","R","E"," ","[","d","b","o","]",".","[","G","e","t","F","o","o","]","\n","A","S","\n">>, declares |-> TRUE,  qualified |-> TRUE],
      [text |-> <<"c","r","e","a","t","e"," ","p","r","o","c","e","d","u","r","e"," ","d","b","o",".","G","e","t","F","o","o","\n","a","s","\n">>,     declares |-> TRUE,  qualified |-> TRUE],
      [text |-> <<"C","R","E","A","T","E"," ","P","R","O","C","E","D","U","R","E"," ","[","G","e","t","F","o","o","]","\n","A","S","\n">>,       declares |-> TRUE,  qualified |-> FALSE],
      [text |-> <<"A","L","T","E","R"," ","P","R","O","C","E","D","U","R","E"," ","[","d","b","o","]",".","[","G","e","t","F","o","o","]","\n","A","S","\n">>,  declares |-> FALSE, qualified |-> FALSE],
      [text |-> <<>>,                                     declares |-> FALSE, qualified |-> FALSE] }

\* names of the files process_directory finds (*.StoredProcedure.sql)
FileNames ==
    { <<"d","b","o",".","G","e","t","F","o","o",".","S","t","o","r","e","d","P","r","o","c","e","d","u","r","e",".","s","q","l">>,
      <<"r","p","t",".","O","t","h","e","r",".","S","t","o","r","e","d","P","r","o","c","e","d","u","r","e",".","s","q","l">>,
      <<"G","e","t","F","o","o",".","S","t","o","r","e","d","P","r","o","c","e","d","u","r","e",".","s","q","l">> }

\* the file names main of final_converter.py passes as procedure_name
ProcedureNames == {<<"d","b","o",".","G","e","t","F","o","o",".","S","t","o","r","e","d","P","r","o","c","e","d","u","r","e",".","s","q","l">>, <<"G","e","t","F","o","o",".","S","t","o","r","e","d","P","r","o","c","e","d","u","r","e",".","s","q","l">>}

\* texts in which parameter names occur as whole tokens and inside longer
\* identifiers
SqlTemplates == {"tokens", "sigils"}

SqlFor(template, decls) ==
    LET piece(d) == IF template = "tokens"
                    THEN d.name \o <<" ","="," ">> \o d.name \o <<"O","l","d"," ","+"," ","M","y">> \o d.name
                    ELSE S_AT \o d.name \o <<","," ">> \o d.name \o <<"_","2">>
    IN join(<<";"," ">>, [k \in 1..Len(decls) |-> piece(decls[k])])

\* converted texts given to validate_converted_sql: a skeleton that lists
\* the given column names, with or without the language marker
Converted(well_formed, names) ==
    <<"C","R","E","A","T","E"," ","O","R"," ","R","E","P","L","A","C","E"," ","F","U","N","C","T","I","O","N"," ","d","b","o",".","G","e","t","F","o","o","(",")","\n","R","E","T","U","R","N","S"," ","T","A","B","L","E"," ","(">> \o join(<<","," ">>, names) \o <<")","\n">>
    \o (IF well_formed THEN <<"L","A","N","G","U","A","G","E"," ","p","l","p","g","s","q","l"," ">> ELSE <<>>)
    \o <<"A","S"," ","$","f","u","n","c","t","i","o","n","$","\n","B","E","G","I","N","\n"," "," "," "," ","R","E","T","U","R","N"," ","Q","U","E","R","Y"," ","S","E","L","E","C","T"," ","1",";","\n","E","N","D",";","\n","$","f","u","n","c","t","i","o","n","$",";">>

\* the column names a converted text lists for a procedure that projects
\* cols: all of them, all but the last, or none
ListedNames(cols) ==
    { ColumnNames(cols),
      SubSeq(ColumnNames(cols), 1, Len(cols) - 1),
      <<>> }

\* outcomes of the request to the rewrite engine
R_PLAIN ==
    <<"C","R","E","A","T","E"," ","O","R"," ","R","E","P","L","A","C","E"," ","F","U","N","C","T","I","O","N"," ","d","b","o",".","G","e","t","F","o","o","(",")","\n","R","E","T","U","R","N","S"," ","v","o","i","d","\n","L","A","N","G","U","A","G","E"," ","p","l","p","g","s","q","l"," ","A","S"," ","$","f","u","n","c","t","i","o","n","$","\n","B","E","G","I","N","\n"," "," "," "," ","U","P","D","A","T","E"," ","[","F","o","o","]"," ","S","E","T"," ","M","o","d","i","f","i","e","d"," ","="," ","G","E","T","D","A","T","E","(",")",","," ","A","m","o","u","n","t"," ","="," ","0",":",":","n","u","m","e","r","i","c"," ","(","1","0",","," ","2",")",";","\n","E","N","D",";","\n","$","f","u","n","c","t","i","o","n","$",";">>

R_FENCED == <<"H","e","r","e"," ","i","s"," ","t","h","e"," ","f","u","n","c","t","i","o","n",":","\n">> \o FENCE_SQL \o S_NL \o R_PLAIN \o S_NL \o FENCE \o <<"\n","D","o","n","e",".">>

EngineOutcomes ==
    { [kind |-> "exception"],
      [kind |-> "response", text |-> R_PLAIN],
      [kind |-> "response", text |-> R_FENCED] }

\* the files of a directory given to process_directory, with the pair of
\* names the file name encodes (<<>> when it encodes none)
BatchFiles ==
    { [name |-> <<"d","b","o",".","G","e","t","F","o","o",".","S","t","o","r","e","d","P","r","o","c","e","d","u","r","e",".","s","q","l">>,  pair |-> <<<<"d","b","o">>, <<"G","e","t","F","o","o">>>>],
      [name |-> <<"r","p","t",".","O","t","h","e","r",".","S","t","o","r","e","d","P","r","o","c","e","d","u","r","e",".","s","q","l">>,   pair |-> <<<<"r","p","t">>, <<"O","t","h","e","r">>>>],
      [name |-> <<"G","e","t","F","o","o",".","S","t","o","r","e","d","P","r","o","c","e","d","u","r","e",".","s","q","l">>,      pair |-> <<>>],
      [name |-> <<".","G","e","t","F","o","o",".","S","t","o","r","e","d","P","r","o","c","e","d","u","r","e",".","s","q","l">>,     pair |-> <<>>] }

\* the lists of files rglob can find: different files, at most MaxFiles
BatchDirectories ==
    {files \in NonEmptySeqsUpTo(BatchFiles, MaxFiles) :
        \A i, j \in 1..Len(files) : i # j => files[i] # files[j]}

BatchBodies == {S_BODY, <<"U","P","D","A","T","E"," ","F","o","o"," ","S","E","T"," ","I","s","A","c","t","i","v","e"," ","="," ","0">>}

\* answers of the rewrite engine to convert_sql: a complete function, the
\* same without its language marker, cut short, inside a code fence, and
\* without the declaration marker
R_COMPLETE ==
    <<"C","R","E","A","T","E"," ","O","R"," ","R","E","P","L","A","C","E"," ","F","U","N","C","T","I","O","N"," ","d","b","o",".","G","e","t","F","o","o","(","p","_","u","s","e","r","i","d"," ","i","n","t","e","g","e","r",")","\n","R","E","T","U","R","N","S"," ","T","A","B","L","E"," ","(","U","s","e","r","I","d"," ","i","n","t","e","g","e","r",","," ","I","s","A","c","t","i","v","e"," ","b","o","o","l","e","a","n",","," ","C","r","e","a","t","e","d","D","a","t","e"," ","t","i","m","e","s","t","a","m","p",")","\n","L","A","N","G","U","A","G","E"," ","p","l","p","g","s","q","l","\n","A","S"," ","$","f","u","n","c","t","i","o","n","$","\n","B","E","G","I","N","\n"," "," "," "," ","-","-"," ","r","e","t","u","r","n"," ","t","h","e"," ","r","o","w","s"," ","o","f"," ","F","o","o"," ","t","h","a","t"," ","b","e","l","o","n","g"," ","t","o"," ","t","h","e"," ","g","i","v","e","n"," ","u","s","e","r"," ","a","n","d"," ","a","r","e"," ","s","t","i","l","l"," ","a","c","t","i","v","e","\n"," "," "," "," ","R","E","T","U","R","N"," ","Q","U","E","R","Y","\n"," "," "," "," ","S","E","L","E","C","T"," ","f",".","U","s","e","r","I","d",","," ","f",".","I","s","A","c","t","i","v","e",","," ","f",".","C","r","e","a","t","e","d","D","a","t","e","\n"," "," "," "," ","F","R","O","M"," ","F","o","o"," ","f","\n"," "," "," "," ","W","H","E","R","E"," ","f",".","U","s","e","r","I","d"," ","="," ","$","1"," ","A","N","D"," ","f",".","I","s","A","c","t","i","v","e"," ","="," ","t","r","u","e","\n"," "," "," "," ","O","R","D","E","R"," ","B","Y"," ","f",".","C","r","e","a","t","e","d","D","a","t","e",";","\n","E","N","D",";","\n","$","f","u","n","c","t","i","o","n","$",";">>

R_NO_LANGUAGE == replace(R_COMPLETE, <<"L","A","N","G","U","A","G","E"," ","p","l","p","g","s","q","l","\n">>, <<>>)

R_CUT == SubSeq(R_COMPLETE, 1, Len(R_COMPLETE) \div 3)

R_IN_FENCE == FENCE_SQL \o S_NL \o R_COMPLETE \o S_NL \o FENCE

R_NO_MARKER == replace(R_COMPLETE, S_DECLARATION_MARKER, <<"C","R","E","A","T","E"," ","F","U","N","C","T","I","O","N">>)

BatchOutcomes ==
    { [kind |-> "exception"],
      [kind |-> "status"],
      [kind |-> "response", text |-> R_COMPLETE],
      [kind |-> "response", text |-> R_NO_LANGUAGE],
      [kind |-> "response", text |-> R_CUT],
      [kind |-> "response", text |-> R_IN_FENCE],
      [kind |-> "response", text |-> R_NO_MARKER] }

\* parameters given to convert_parameters_with_prefix: lists of names that
\* differ when letter case is ignored
PrefixParams ==
    { [name |-> <<"U","s","e","r","I","d">>,   type |-> PG_integer],
      [name |-> <<"u","s","e","r","i","d">>,   type |-> PG_text],
      [name |-> <<"I","s","A","c","t","i","v","e">>, type |-> PG_boolean],
      [name |-> <<"p","_","U","s","e","r","I","d">>, type |-> PG_integer] }

PrefixParamLists ==
    {params \in SeqsUpTo(PrefixParams, MaxParams) :
        \A i, j \in 1..Len(params) :
            i # j => lower(params[i].name) # lower(params[j].name)}

\* result columns, and the text extract_return_structure renders for them
PrefixColumns ==
    { [name |-> <<"U","s","e","r","I","d">>,   type |-> PG_integer],
      [name |-> <<"I","s","A","c","t","i","v","e">>, type |-> PG_boolean],
      [name |-> <<"p","_","U","s","e","r","I","d">>, type |-> PG_text] }

PrefixColumnLists ==
    {cols \in SeqsUpTo(PrefixColumns, MaxColumns) :
        \A i, j \in 1..Len(cols) : i # j => cols[i].name # cols[j].name}

ReturnStructureOf(cols) ==
    join(<<",","\n"," "," "," "," ">>, [k \in 1..Len(cols) |-> cols[k].name \o S_SPACE \o cols[k].type])

\* the procedures validate_conversion and convert_to_postgres of
\* convert_sql.py are given, with the parameters they declare
O_RPT == <<"C","R","E","A","T","E"," ","P","R","O","C","E","D","U","R","E"," ","[","r","p","t","]",".","[","O","t","h","e","r","]","\n"," "," "," "," ","@","K","e","y"," ","i","n","t","\n","A","S","\n","S","E","L","E","C","T"," ","U","s","e","r","I","d"," ","F","R","O","M"," ","r","p","t",".","F","o","o"," ","W","H","E","R","E"," ","U","s","e","r","I","d"," ","="," ","@","K","e","y">>
O_JOIN == <<"C","R","E","A","T","E"," ","P","R","O","C","E","D","U","R","E"," ","[","r","p","t","]",".","[","O","t","h","e","r","]","\n"," "," "," "," ","@","K","e","y"," ","i","n","t",",","\n"," "," "," "," ","@","N","a","m","e"," ","n","v","a","r","c","h","a","r","(","5","0",")","\n","A","S","\n","S","E","L","E","C","T"," ","U","s","e","r","I","d"," ","F","R","O","M"," ","r","p","t",".","F","o","o"," ","J","O","I","N"," ","d","b","o",".","B","a","r"," ","O","N"," ","B","a","r","N","a","m","e"," ","="," ","@","N","a","m","e"," ","W","H","E","R","E"," ","U","s","e","r","I","d"," ","="," ","@","K","e","y">>

CsOriginals ==
    { [text |-> O_RPT, declared |-> <<<<"K","e","y">>>>],
      [text |-> O_JOIN, declared |-> <<<<"K","e","y">>, <<"N","a","m","e">>>>],
      [text |-> <<"U","P","D","A","T","E"," ","F","o","o"," ","S","E","T"," ","I","s","A","c","t","i","v","e"," ","="," ","0">>, declared |-> <<>>] }

\* a conversion of O_RPT that passes every check
V_OK == <<"C","R","E","A","T","E"," ","O","R"," ","R","E","P","L","A","C","E"," ","F","U","N","C","T","I","O","N"," ","r","p","t",".","O","t","h","e","r","(","K","e","y"," ","i","n","t","e","g","e","r",")","\n","R","E","T","U","R","N","S"," ","T","A","B","L","E"," ","(","U","s","e","r","I","d"," ","i","n","t","e","g","e","r",")","\n","L","A","N","G","U","A","G","E"," ","p","l","p","g","s","q","l"," ","A","S"," ","$","f","u","n","c","t","i","o","n","$","\n","B","E","G","I","N","\n"," "," ","R","E","T","U","R","N"," ","Q","U","E","R","Y"," ","S","E","L","E","C","T"," ","f",".","U","s","e","r","I","d"," ","F","R","O","M"," ","r","p","t",".","F","o","o"," ","f"," ","W","H","E","R","E"," ","f",".","U","s","e","r","I","d"," ","="," ","K","e","y",";","\n","E","N","D",";","\n","$","f","u","n","c","t","i","o","n","$">>

\* the same with the parameter replaced by its ordinal placeholder
V_PLACEHOLDER == replace(replace(V_OK, <<"K","e","y"," ","i","n","t","e","g","e","r">>, <<"i","n","t","e","g","e","r">>), <<"="," ","K","e","y">>, <<"="," ","$","1">>)

\* the converted texts: in lower case, with a placeholder, with two
\* occurrences of @, with source-dialect calls in another letter case, with
\* words that hold GO and len( inside, empty
CsConverted ==
    { V_OK, lower(V_OK), V_PLACEHOLDER,
      V_OK \o <<"\n","-","-"," ","@","K","e","y",","," ","@","K","e","y">>,
      V_OK \o <<"\n","-","-"," ","G","E","T","D","A","T","E","(",")"," ","L","e","n","(","x",")"," ","s","e","t"," ","n","o","c","o","u","n","t"," ","o","n">>,
      V_OK \o <<"\n","-","-"," ","C","A","T","E","G","O","R","Y"," ","s","t","r","l","e","n","(","x",")">>,
      <<>> }

\* what one requests.post of convert_to_postgres can bring: a timeout, another
\* request error before a response exists, a response whose JSON holds the
\* text, a response whose JSON cannot be read
CsPostOutcomes == {"timeout", "error", "text", "garbage"}

MaxFailures == 1

\* procedures given to convert_to_postgres of convert_sql_refined.py
RefinedSources ==
    { ProcText("line_each", OneParam, S_BODY),
      ProcText("line_each", <<[name |-> <<"I","s","A","c","t","i","v","e">>, type |-> <<"b","i","t">>]>>, S_BODY),
      ProcText("same_line", OneParam, <<"B","E","G","I","N","\n","S","E","L","E","C","T"," ","1","\n","E","N","D">>),
      \* a text of more than LARGE_FILE_SIZE characters
      ProcText("same_line", OneParam, <<"B","E","G","I","N","\n","S","E","L","E","C","T"," ","1","\n","E","N","D">>)
          \o [i \in 1..LARGE_FILE_SIZE |-> " "] }

\* answers of the generate endpoint: a function whose header and result
\* columns use the names of the source, one whose header uses prefixed
\* names, one without the declaration marker, and an empty one
R_SAME_NAMES ==
    <<"H","e","r","e"," ","i","s"," ","t","h","e"," ","f","u","n","c","t","i","o","n",":","\n","C","R","E","A","T","E"," ","O","R"," ","R","E","P","L","A","C","E"," ","F","U","N","C","T","I","O","N"," ","d","b","o",".","G","e","t","F","o","o","(","U","s","e","r","I","d"," ","i","n","t","e","g","e","r",")","\n","R","E","T","U","R","N","S"," ","T","A","B","L","E"," ","(","U","s","e","r","I","d"," ","i","n","t","e","g","e","r",","," ","I","s","A","c","t","i","v","e"," ","b","o","o","l","e","a","n",")","\n","L","A","N","G","U","A","G","E"," ","p","l","p","g","s","q","l","\n","A","S"," ","$","$","\n","B","E","G","I","N","\n"," "," "," "," ","R","E","T","U","R","N"," ","Q","U","E","R","Y","\n"," "," "," "," ","S","E","L","E","C","T"," ","f",".","U","s","e","r","I","d",","," ","f",".","I","s","A","c","t","i","v","e","\n"," "," "," "," ","F","R","O","M"," ","F","o","o"," ","f","\n"," "," "," "," ","W","H","E","R","E"," ","f",".","U","s","e","r","I","d"," ","="," ","U","s","e","r","I","d"," ",";","\n","E","N","D",";","\n","$","$",";","\n","D","o","n","e",".">>

R_PREFIXED ==
    <<"C","R","E","A","T","E"," ","O","R"," ","R","E","P","L","A","C","E"," ","F","U","N","C","T","I","O","N"," ","d","b","o",".","G","e","t","F","o","o","(","p","_","u","s","e","r","i","d"," ","i","n","t","e","g","e","r",")","\n","R","E","T","U","R","N","S"," ","T","A","B","L","E"," ","(","u","s","e","r","_","i","d"," ","i","n","t","e","g","e","r",")","\n","L","A","N","G","U","A","G","E"," ","p","l","p","g","s","q","l","\n","A","S"," ","$","$","\n","B","E","G","I","N","\n"," "," "," "," ","R","E","T","U","R","N"," ","Q","U","E","R","Y","\n"," "," "," "," ","S","E","L","E","C","T"," ","f",".","u","s","e","r","_","i","d","\n"," "," "," "," ","F","R","O","M"," ","F","o","o"," ","f","\n"," "," "," "," ","W","H","E","R","E"," ","f",".","u","s","e","r","_","i","d"," ","="," ","p","_","u","s","e","r","i","d",";","\n","E","N","D",";","\n","$","$",";">>

RefinedResponses == {R_SAME_NAMES, R_PREFIXED, R_NO_MARKER, <<>>}

\* what requests.get of the health check gives: a status code, or a
\* requests.RequestException (refused connection, timeout)
HealthOutcomes ==
    { [kind |-> "status", status_code |-> 200],
      [kind |-> "status", status_code |-> 503],
      [kind |-> "error"] }

\* what requests.post of the generate request gives: an exception, a status
\* other than 200, a body that response.json() cannot read, or a response
GenerateOutcomes ==
    { [kind |-> "error"], [kind |-> "status"], [kind |-> "garbage"] }
    \cup { [kind |-> "text", response |-> r] : r \in RefinedResponses }

(***************************************************************************)
(* The state machine: one call at a time.  pc is "idle" between calls and *)
(* "returned" when ret holds the result of the call described by call;    *)
(* sent holds the requests the call sent to the rewrite engine.           *)
(* conversion_failures is the module-level dictionary of convert_sql.py   *)
(* (a key that was never used reads as the empty list) and                *)
(* conversion_results the dictionary process_directory of                 *)
(* batch_converter.py fills file by file.                                  *)
(***************************************************************************)
NoCall == [fn |-> "none"]
NoRet == [kind |-> "none"]

Init ==
    /\ pc = "idle"
    /\ call = NoCall
    /\ ret = NoRet
    /\ sent = <<>>
    /\ conversion_failures = [api_errors |-> <<>>, validation_errors |-> <<>>]
    /\ conversion_results = [successful |-> <<>>, failed |-> <<>>]
    /\ sql_files = <<>>
    /\ index = 0

ExtractParameters ==
    /\ pc = "idle"
    /\ \E layout \in Layouts, decls \in DeclLists :
         LET sql_content == ProcText(layout, decls, S_BODY)
         IN /\ call' = [fn |-> "extract_parameters", sql_content |-> sql_content,
                        layout |-> layout, declared |-> decls]
            /\ ret' = [kind |-> "value", val |-> extract_parameters(sql_content)]
    /\ pc' = "returned"
    /\ UNCHANGED <<sent, conversion_failures, conversion_results, sql_files, index>>

\* lines 76-94 of extract_parameters applied to the line "@p T"
MapType ==
    /\ pc = "idle"
    /\ \E T \in TypeTokens :
         LET line == <<"@","p"," ">> \o T
         IN /\ call' = [fn |-> "map_type", type_token |-> T]
            /\ ret' = [kind |-> "value", val |-> param_of_line(line).type]
    /\ pc' = "returned"
    /\ UNCHANGED <<sent, conversion_failures, conversion_results, sql_files, index>>

ExtractParams ==
    /\ pc = "idle"
    /\ \E layout \in Layouts, decls \in DeclLists :
         LET sql_content == ProcText(layout, decls, S_BODY)
         IN /\ call' = [fn |-> "extract_params", sql_content |-> sql_content,
                        layout |-> layout, declared |-> decls]
            /\ ret' = [kind |-> "value", val |-> extract_params(sql_content)]
    /\ pc' = "returned"
    /\ UNCHANGED <<sent, conversion_failures, conversion_results, sql_files, index>>

HandleLargeFile ==
    /\ pc = "idle"
    /\ \E layout \in Layouts, decls \in DeclLists, body \in Bodies \cup LargeFileBodies :
         LET sql_content == ProcText(layout, decls, body)
         IN /\ call' = [fn |-> "handle_large_file", sql_content |-> sql_content,
                        layout |-> layout, declared |-> decls]
            /\ ret' = handle_large_file(sql_content, <<"d","b","o">>, <<"G","e","t","F","o","o">>)
    /\ pc' = "returned"
    /\ UNCHANGED <<sent, conversion_failures, conversion_results, sql_files, index>>

ExtractReturnStructure ==
    /\ pc = "idle"
    /\ \E shape \in BodyShapes, cols \in ColumnLists :
         LET sql_content == ProcText("line_each", OneParam, BodyText(shape, cols))
         IN /\ call' = [fn |-> "extract_return_structure", sql_content |-> sql_content,
                        shape |-> shape, columns |-> cols]
            /\ ret' = extract_return_structure(sql_content)
    /\ pc' = "returned"
    /\ UNCHANGED <<sent, conversion_failures, conversion_results, sql_files, index>>

ReplacePositionalParams ==
    /\ pc = "idle"
    /\ \E layout \in Layouts, decls \in DeclLists, template \in SqlTemplates :
         LET original_content == ProcText(layout, decls, S_BODY)
             sql == SqlFor(template, decls)
         IN /\ call' = [fn |-> "replace_positional_params", sql |-> sql,
                        original_content |-> original_content,
                        layout |-> layout, declared |-> decls, template |-> template]
            /\ ret' = [kind |-> "value",
                       val |-> replace_positional_params(sql, original_content)]
    /\ pc' = "returned"
    /\ UNCHANGED <<sent, conversion_failures, conversion_results, sql_files, index>>

InferColumnType ==
    /\ pc = "idle"
    /\ \E column_name \in InferNames :
         /\ call' = [fn |-> "infer_column_type", column_name |-> column_name]
         /\ ret' = [kind |-> "value", val |-> infer_column_type(column_name)]
    /\ pc' = "returned"
    /\ UNCHANGED <<sent, conversion_failures, conversion_results, sql_files, index>>

ValidateConvertedSql ==
    /\ pc = "idle"
    /\ \E shape \in BodyShapes, cols \in ColumnLists, well_formed \in BOOLEAN :
       \E names \in ListedNames(cols) :
         LET original_sql == ProcText("line_each", OneParam, BodyText(shape, cols))
             converted == Converted(well_formed, names)
             verdict == validate_converted_sql(converted, original_sql, <<"d","b","o">>, <<"G","e","t","F","o","o">>)
         IN /\ call' = [fn |-> "validate_converted_sql", converted |-> converted,
                        original_sql |-> original_sql, shape |-> shape, columns |-> cols]
            /\ ret' = [kind |-> "value", valid |-> verdict.valid, message |-> verdict.message]
    /\ pc' = "returned"
    /\ UNCHANGED <<sent, conversion_failures, conversion_results, sql_files, index>>

BatchExtractSchemaAndName ==
    /\ pc = "idle"
    /\ \E header \in DeclHeaders, body \in Bodies, file_name \in FileNames :
         LET sql_content == header.text \o body
         IN /\ call' = [fn |-> "batch_extract_schema_and_name", sql_content |-> sql_content,
                        file_name |-> file_name, declares |-> header.declares]
            /\ ret' = batch_extract_schema_and_name(sql_content, file_name)
    /\ pc' = "returned"
    /\ UNCHANGED <<sent, conversion_failures, conversion_results, sql_files, index>>

FinalExtractSchemaAndName ==
    /\ pc = "idle"
    /\ \E header \in DeclHeaders, body \in Bodies :
         LET sql_content == header.text \o body
         IN /\ call' = [fn |-> "final_extract_schema_and_name", sql_content |-> sql_content,
                        declares |-> header.declares]
            /\ ret' = final_extract_schema_and_name(sql_content)
    /\ pc' = "returned"
    /\ UNCHANGED <<sent, conversion_failures, conversion_results, sql_files, index>>

\* convert_to_postgres of final_converter.py: one request, no retry
FinalConvertToPostgres ==
    /\ pc = "idle"
    /\ \E layout \in Layouts, decls \in DeclLists, body \in Bodies,
          procedure_name \in ProcedureNames, outcome \in EngineOutcomes :
         LET sql_content == ProcText(layout, decls, body)
             request == final_request(sql_content, procedure_name)
         IN /\ call' = [fn |-> "final_convert_to_postgres", sql_content |-> sql_content,
                        procedure_name |-> procedure_name,
                        layout |-> layout, declared |-> decls, body |-> body]
            /\ IF request.kind = "error"
               THEN ret' = [kind |-> "error"] /\ sent' = <<>>
               ELSE /\ sent' = <<request>>
                    /\ ret' = IF outcome.kind = "exception" THEN [kind |-> "none"]
                              ELSE [kind |-> "value", val |-> final_post_process(outcome.text)]
    /\ pc' = "returned"
    /\ UNCHANGED <<conversion_failures, conversion_results, sql_files, index>>

FormatFunctionDefinition ==
    /\ pc = "idle"
    /\ \E layout \in Layouts, decls \in DeclLists, body \in Bodies :
         LET sql_content == ProcText(layout, decls, body)
         IN /\ call' = [fn |-> "format_function_definition", sql_content |-> sql_content,
                        layout |-> layout, declared |-> decls]
            /\ ret' = format_function_definition(sql_content, <<"d","b","o">>, <<"G","e","t","F","o","o">>)
    /\ pc' = "returned"
    /\ UNCHANGED <<sent, conversion_failures, conversion_results, sql_files, index>>

\* convert_parameters_with_prefix on a parameter list and the return
\* structure of a list of columns, or None for no result shape
ConvertParametersWithPrefix ==
    /\ pc = "idle"
    /\ \E params \in PrefixParamLists, cols \in PrefixColumnLists, shaped \in BOOLEAN :
         LET return_structure ==
                 IF shaped THEN [kind |-> "value", val |-> ReturnStructureOf(cols)]
                 ELSE [kind |-> "none"]
         IN /\ shaped \/ cols = <<>>
            /\ call' = [fn |-> "convert_parameters_with_prefix", params |-> params,
                        return_structure |-> return_structure,
                        columns |-> IF shaped THEN cols ELSE <<>>]
            /\ ret' = IF prefix_raises(return_structure) THEN [kind |-> "error"]
                      ELSE [kind |-> "value",
                            val |-> convert_parameters_with_prefix(params, return_structure)]
    /\ pc' = "returned"
    /\ UNCHANGED <<sent, conversion_failures, conversion_results, sql_files, index>>

\* process_directory up to its loop: the files rglob finds
ProcessDirectory ==
    /\ pc = "idle"
    /\ sql_files = <<>>
    /\ \E files \in BatchDirectories : sql_files' = files
    /\ UNCHANGED <<pc, call, ret, sent, conversion_failures, conversion_results, index>>

\* one file of the loop of process_directory: read_sql_file, and convert_sql
\* up to its first request.  A file that cannot be read is recorded as
\* failed; without a pair of names convert_sql returns None and the file is
\* recorded as failed.
ProcessFile ==
    /\ pc = "idle"
    /\ index < Len(sql_files)
    /\ index' = index + 1
    /\ \E header \in DeclHeaders, body \in BatchBodies, readable \in BOOLEAN :
         LET file == sql_files[index + 1]
             sql_content == header.text \o body
             started(names) ==
                 IF names.kind = "none" \/ names.schema = <<>> \/ names.name = <<>>
                 THEN /\ call' = [fn |-> "convert_sql", sql_content |-> sql_content,
                                  file_name |-> file.name, header |-> header,
                                  pair |-> file.pair, schema_name |-> <<>>,
                                  proc_name |-> <<>>, current_attempt |-> 0,
                                  answers |-> <<>>, rejected |-> <<>>]
                      /\ ret' = [kind |-> "none"]
                      /\ conversion_results' =
                           recorded(conversion_results, file.name, [kind |-> "none"], TRUE)
                      /\ pc' = "returned"
                 ELSE /\ call' = [fn |-> "convert_sql", sql_content |-> sql_content,
                                  file_name |-> file.name, header |-> header,
                                  pair |-> file.pair, schema_name |-> names.schema,
                                  proc_name |-> names.name, current_attempt |-> 1,
                                  answers |-> <<>>, rejected |-> <<>>,
                                  payload |-> batch_request(sql_content, names.schema,
                                                            names.name)]
                      /\ ret' = NoRet
                      /\ pc' = "requesting"
                      /\ UNCHANGED conversion_results
         IN IF readable
            THEN started(batch_extract_schema_and_name(sql_content, file.name))
            ELSE /\ call' = [fn |-> "read_sql_file", file_name |-> file.name]
                 /\ ret' = [kind |-> "none"]
                 /\ conversion_results' =
                      [conversion_results EXCEPT
                         !.failed = Append(@, [file |-> file.name,
                                               reason |-> <<"F","a","i","l","e","d"," ","t","o"," ","r","e","a","d"," ","f","i","l","e">>])]
                 /\ pc' = "returned"
    /\ UNCHANGED <<sent, conversion_failures, sql_files>>

\* one pass of the retry loop of convert_sql: the request, the answer and
\* what becomes of it; on the last pass process_directory writes the output,
\* which can raise, and records the file
ConvertSqlAttempt ==
    /\ pc = "requesting"
    /\ \E outcome \in BatchOutcomes :
         LET again == call.current_attempt < max_attempts
             retry(c) ==
                 /\ call' = [c EXCEPT !.current_attempt = @ + 1]
                 /\ pc' = "requesting"
                 /\ UNCHANGED <<ret, conversion_results>>
             returns(c, postgres_sql) ==
                 /\ call' = c
                 /\ pc' = "returned"
                 /\ ret' = postgres_sql
                 /\ \E written \in BOOLEAN :
                      conversion_results' =
                        recorded(conversion_results, call.file_name, postgres_sql, written)
             answered(got) ==
                 IF ~got.verdict.valid /\ again
                 THEN retry([call EXCEPT !.answers = Append(@, outcome.text),
                                         !.rejected = Append(@, got.converted)])
                 ELSE returns([call EXCEPT
                                 !.answers = Append(@, outcome.text),
                                 !.rejected = IF got.verdict.valid THEN @
                                              ELSE Append(@, got.converted)],
                              [kind |-> "value", val |-> format_converted(got.converted)])
         IN IF outcome.kind # "response"
            THEN IF again THEN retry(call) ELSE returns(call, [kind |-> "none"])
            ELSE answered(received(outcome.text, call.sql_content,
                                   call.schema_name, call.proc_name))
    /\ sent' = Append(sent, call.payload)
    /\ UNCHANGED <<conversion_failures, sql_files, index>>

\* validate_conversion of convert_sql.py, the loop over the set of tables
\* in any order
ValidateConversion ==
    /\ pc = "idle"
    /\ Len(conversion_failures.validation_errors)
         + Len(conversion_failures.api_errors) < MaxFailures
    /\ \E postgres_sql \in CsConverted, procedure_name \in FileNames, original \in CsOriginals :
         \E tables \in table_orders(original_tables(original.text,
                                                    cs_schema_name(procedure_name))) :
           LET done(r) ==
                   /\ call' = [fn |-> "validate_conversion", postgres_sql |-> postgres_sql,
                               procedure_name |-> procedure_name,
                               original_sql |-> original.text,
                               declared |-> original.declared, tables |-> tables]
                   /\ ret' = [kind |-> "value", val |-> r.valid, errors |-> r.errors]
                   /\ conversion_failures' =
                        [conversion_failures EXCEPT !.validation_errors = r.failures]
           IN done(validate_conversion(postgres_sql, procedure_name, original.text, tables,
                                       conversion_failures.validation_errors))
    /\ pc' = "returned"
    /\ UNCHANGED <<sent, conversion_results, sql_files, index>>

\* convert_to_postgres of convert_sql.py up to its first request: the names
\* of the file (parts[1] raises IndexError when the name has one part) and
\* the parameters of the prompt
CsConvertToPostgres ==
    /\ pc = "idle"
    /\ Len(conversion_failures.validation_errors)
         + Len(conversion_failures.api_errors) < MaxFailures
    /\ \E original \in CsOriginals, procedure_name \in FileNames :
         LET started(parts) ==
                 IF Len(parts) < 2
                 THEN /\ call' = [fn |-> "cs_convert_to_postgres",
                                  sql_content |-> original.text,
                                  procedure_name |-> procedure_name]
                      /\ ret' = [kind |-> "error", error |-> "IndexError"]
                      /\ pc' = "returned"
                 ELSE /\ call' = [fn |-> "cs_convert_to_postgres",
                                  sql_content |-> original.text,
                                  procedure_name |-> procedure_name,
                                  payload |-> [schema_name |-> parts[1],
                                               proc_name |-> parts[2],
                                               params |-> cs_extract_parameters(original.text)],
                                  attempt |-> 0, timeout_retry |-> 0,
                                  response |-> "unbound"]
                      /\ ret' = NoRet
                      /\ pc' = "posting"
         IN started(split(replace(procedure_name, <<".","S","t","o","r","e","d","P","r","o","c","e","d","u","r","e",".","s","q","l">>, <<>>), S_DOT))
    /\ UNCHANGED <<sent, conversion_failures, conversion_results, sql_files, index>>

\* one requests.post of convert_to_postgres of convert_sql.py and what
\* follows it up to the next one (sent records the names and parameters of
\* the prompt, whose text of the procedure is call.sql_content): the third
\* timeout in a row is raised; any
\* other outcome ends the inner loop, and response.json()["response"] is read
\* from the variable response, which a failed request leaves as it was
CsRequestsPost ==
    /\ pc = "posting"
    /\ sent' = Append(sent, call.payload)
    /\ \E outcome \in CsPostOutcomes :
         LET final == call.attempt = max_retries - 1
             read(response) ==
                 IF response = "text"
                 THEN \* postgres_sql is assigned and the loop goes on
                      /\ conversion_failures' = conversion_failures
                      /\ IF final
                         THEN /\ call' = [call EXCEPT !.response = response]
                              /\ ret' = [kind |-> "none"]
                              /\ pc' = "returned"
                         ELSE /\ call' = [call EXCEPT !.response = response,
                                                      !.attempt = @ + 1,
                                                      !.timeout_retry = 0]
                              /\ UNCHANGED <<ret, pc>>
                 ELSE \* the except branch of the attempt
                      IF final
                      THEN /\ conversion_failures' =
                                [conversion_failures EXCEPT
                                   !.api_errors = Append(@, call.procedure_name)]
                           /\ call' = [call EXCEPT !.response = response]
                           /\ ret' = [kind |-> "none"]
                           /\ pc' = "returned"
                      ELSE /\ call' = [call EXCEPT !.response = response,
                                                   !.attempt = @ + 1,
                                                   !.timeout_retry = 0]
                           /\ UNCHANGED <<ret, pc, conversion_failures>>
         IN IF outcome = "timeout"
            THEN /\ conversion_failures' = conversion_failures
                 /\ IF call.timeout_retry = max_timeout_retries - 1
                    THEN /\ ret' = [kind |-> "error", error |-> "Timeout"]
                         /\ pc' = "returned"
                         /\ call' = call
                    ELSE /\ call' = [call EXCEPT !.timeout_retry = @ + 1]
                         /\ UNCHANGED <<ret, pc>>
            ELSE read(IF outcome = "error" THEN call.response ELSE outcome)
    /\ UNCHANGED <<conversion_results, sql_files, index>>

\* convert_to_postgres of convert_sql_refined.py up to its loop: a text of
\* more than LARGE_FILE_SIZE characters is handed to handle_large_file
RefinedConvertToPostgres ==
    /\ pc = "idle"
    /\ \E sql_content \in RefinedSources :
         /\ call' = [fn |-> "refined_convert_to_postgres",
                     sql_content |-> sql_content, attempt |-> 0]
         /\ IF Len(sql_content) > LARGE_FILE_SIZE
            THEN /\ ret' = handle_large_file(sql_content, <<"d","b","o">>, <<"G","e","t","F","o","o">>)
                 /\ pc' = "returned"
            ELSE /\ ret' = NoRet
                 /\ pc' = "checking"
    /\ UNCHANGED <<sent, conversion_failures, conversion_results, sql_files, index>>

\* the health check of an attempt (sent records every request with the
\* attempt it belongs to and its outcome): a status other than 200 and a
\* failed request both raise requests.RequestException, which ends the attempt
RefinedHealthCheck ==
    /\ pc = "checking"
    /\ \E outcome \in HealthOutcomes :
         /\ sent' = Append(sent, [kind |-> "health", attempt |-> call.attempt,
                                  outcome |-> outcome])
         /\ IF outcome.kind = "status" /\ healthy(outcome.status_code)
            THEN /\ pc' = "generating"
                 /\ UNCHANGED <<call, ret>>
            ELSE \* the attempt is over: the next one, or return None
                 /\ call' = [call EXCEPT !.attempt = @ + 1]
                 /\ pc' = after_attempt(call.attempt)
                 /\ ret' = [kind |-> "none"]
    /\ UNCHANGED <<conversion_failures, conversion_results, sql_files, index>>

\* the generate request of an attempt and what follows it: a response that
\* holds the declaration marker is post-processed and returned, every other
\* outcome ends the attempt.  A body that is not JSON raises from
\* response.json(): a requests.RequestException in the releases of requests
\* that define requests.JSONDecodeError, a plain ValueError, which leaves the
\* function, in the older ones
RefinedGenerate ==
    /\ pc = "generating"
    /\ \E outcome \in GenerateOutcomes :
         /\ sent' = Append(sent, [kind |-> "generate", attempt |-> call.attempt,
                                  outcome |-> outcome])
         /\ LET \* the attempt is over: the next one, or return None
                next_attempt ==
                    /\ call' = [call EXCEPT !.attempt = @ + 1]
                    /\ pc' = after_attempt(call.attempt)
                    /\ ret' = [kind |-> "none"]
                answered(r) ==
                    IF r.kind = "value"
                    THEN /\ ret' = r
                         /\ pc' = "returned"
                         /\ call' = call
                    ELSE next_attempt
            IN IF outcome.kind = "text"
               THEN answered(refined_result(outcome.response, call.sql_content))
               ELSE IF outcome.kind = "garbage"
               THEN \E caught \in BOOLEAN :
                       IF caught THEN next_attempt
                       ELSE /\ ret' = [kind |-> "error", error |-> "ValueError"]
                            /\ pc' = "returned"
                            /\ call' = call
               ELSE next_attempt
    /\ UNCHANGED <<conversion_failures, conversion_results, sql_files, index>>

\* the caller takes the result; the next procedure can be processed
Return ==
    /\ pc = "returned"
    /\ pc' = "idle"
    /\ call' = NoCall
    /\ ret' = NoRet
    /\ sent' = <<>>
    /\ UNCHANGED <<conversion_failures, conversion_results, sql_files, index>>

Next ==
    \/ ExtractParameters
    \/ MapType
    \/ ExtractParams
    \/ HandleLargeFile
    \/ ExtractReturnStructure
    \/ ReplacePositionalParams
    \/ InferColumnType
    \/ ValidateConvertedSql
    \/ BatchExtractSchemaAndName
    \/ FinalExtractSchemaAndName
    \/ FinalConvertToPostgres
    \/ FormatFunctionDefinition
    \/ ConvertParametersWithPrefix
    \/ Return

Spec == Init /\ [][Next]_vars

\* process_directory of batch_converter.py over the files of a directory
BatchNext ==
    \/ ProcessDirectory
    \/ ProcessFile
    \/ ConvertSqlAttempt
    \/ Return

BatchSpec == Init /\ [][BatchNext]_vars

\* validate_conversion and convert_to_postgres of convert_sql.py, one
\* procedure after another, as process_batch calls them
ConvertSqlNext ==
    \/ ValidateConversion
    \/ CsConvertToPostgres
    \/ CsRequestsPost
    \/ Return

ConvertSqlSpec == Init /\ [][ConvertSqlNext]_vars

\* convert_to_postgres of convert_sql_refined.py, one procedure after another
RefinedNext ==
    \/ RefinedConvertToPostgres
    \/ RefinedHealthCheck
    \/ RefinedGenerate
    \/ Return

RefinedSpec == Init /\ [][RefinedNext]_vars

\* every request has a timeout (5 s; 10 s and 120 s) and every wait between
\* attempts is finite (time.sleep of at most 60 s): a started step completes
RefinedFairSpec == RefinedSpec /\ WF_vars(RefinedNext)

(***************************************************************************)
(* Properties.  Each is stated about the state in which a call has        *)
(* returned: call describes the input (and what the text declares), ret   *)
(* the result.                                                             *)
(***************************************************************************)
Returned(fn) == pc = "returned" /\ call.fn = fn

\* the fragments the parameter loop of the returned call iterated over
C1_Fragments ==
    IF call.fn = "extract_params"
    THEN LET stripped(parts) == [k \in 1..Len(parts) |-> strip(parts[k])]
         IN stripped(param_fragments(strip(params_group(call.sql_content).text)))
    ELSE large_file_fragments(header_group(initial_cleanup(call.sql_content)).text)

\* C1: when the parameter list stands in parentheses, extract_params and the
\* parameter loop of handle_large_file split it only at commas outside nested
\* parentheses: the fragments are the declared parameters, one fragment each
\* and in order, so a type token such as numeric(10,2) stays whole.
C1_SplitAtDepthZero ==
    (/\ pc = "returned"
     /\ call.fn \in {"extract_params", "handle_large_file"}
     /\ call.layout = "same_line")
    => C1_Fragments = DeclTexts(call.declared)

\* the column names of the entries of a returned column list
C2_EntryNames(text) ==
    LET names(entries) == [k \in 1..Len(entries) |-> split_ws(entries[k])[1]]
    IN names(split(text, <<",","\n"," "," "," "," ">>))

\* C2: for a text with a SELECT ... FROM projection, extract_return_structure
\* returns one column entry per top-level fragment of the projection list,
\* in the order of the source: the entry names are the column names the
\* fragments define.
C2_OneEntryPerFragment ==
    (Returned("extract_return_structure") /\ call.shape = "select_from")
    => /\ ret.kind = "value"
       /\ C2_EntryNames(ret.val) = ColumnNames(call.columns)

\* the text SqlFor builds, with every whole-token occurrence of the i-th
\* declared name replaced by $i and the longer identifiers left alone
C3_Expected(template, decls) ==
    LET piece(k) == IF template = "tokens"
                    THEN <<"$">> \o str_of(k) \o <<" ","="," ">> \o decls[k].name \o <<"O","l","d"," ","+"," ","M","y">>
                         \o decls[k].name
                    ELSE <<"@","$">> \o str_of(k) \o <<","," ">> \o decls[k].name \o <<"_","2">>
    IN join(<<";"," ">>, [k \in 1..Len(decls) |-> piece(k)])

\* C3: replace_positional_params replaces every whole-token occurrence of the
\* i-th declared parameter name by $i and leaves identifiers that only
\* contain the name unchanged.
C3_WholeTokenOrdinal ==
    Returned("replace_positional_params")
    => ret.val = C3_Expected(call.template, call.declared)

\* C4: extract_parameters returns one (name, mapped type) entry per declared
\* parameter, in declaration order, whatever the layout of the declaration,
\* the type or the name.
C4_OneEntryPerDeclared ==
    Returned("extract_parameters")
    => /\ Len(ret.val) = Len(call.declared)
       /\ \A i \in 1..Len(call.declared) :
            i <= Len(ret.val) => ret.val[i].name = call.declared[i].name

\* the mapping table in the order the claim gives
C5_Rules ==
    << [patterns |-> {T_varbinary},           target |-> PG_bytea],
       [patterns |-> {T_varchar, T_nvarchar}, target |-> PG_text],
       [patterns |-> {T_decimal, T_money},    target |-> PG_numeric],
       [patterns |-> {T_datetime},            target |-> PG_timestamp],
       [patterns |-> {T_bit},                 target |-> PG_boolean],
       [patterns |-> {T_int},                 target |-> PG_integer] >>

\* the rules of which a pattern occurs in t
C5_Matching(t) ==
    {k \in 1..Len(C5_Rules) : \E p \in C5_Rules[k].patterns : contains(p, t)}

C5_Expected(T) ==
    LET first(t, k) == IF k = 0 THEN t ELSE C5_Rules[k].target
        mapped(t) == first(t, MinOr(C5_Matching(t), 0))
    IN mapped(lower(T))

\* C5: the type mapping of extract_parameters is total and first-match-wins:
\* for every type token T the result is the target of the first rule, in the
\* order varbinary, varchar/nvarchar, decimal/money, datetime, bit, int, of
\* which a pattern occurs in lower-cased T, and lower-cased T when there is
\* none; the result is a function of T alone.
C5_FirstMatchWins ==
    Returned("map_type")
    => ret = [kind |-> "value", val |-> C5_Expected(call.type_token)]

\* a token in which the patterns of two rules occur has been mapped to the
\* target of the earlier rule
C5_Witness ==
    /\ Returned("map_type")
    /\ Cardinality(C5_Matching(lower(call.type_token))) >= 2
    /\ ret.val = C5_Rules[Min(C5_Matching(lower(call.type_token)))].target

\* the ordered name-pattern table of the specification
C6_TableType(name) ==
    IF endswith(name, <<"i","d">>) THEN PG_integer
    ELSE IF startswith(name, <<"i","s">>) \/ startswith(name, <<"h","a","s">>) THEN PG_boolean
    ELSE IF contains(<<"d","a","t","e">>, name) \/ contains(<<"t","i","m","e">>, name) THEN PG_timestamp
    ELSE IF any_in({<<"c","o","s","t">>, <<"p","r","i","c","e">>, <<"a","m","o","u","n","t">>, <<"t","o","t","a","l">>, <<"r","a","t","e">>, <<"r","a","t","i","o">>, <<"p","e","r","c","e","n","t">>}, name)
    THEN <<"n","u","m","e","r","i","c","(","1","0",",","2",")">>
    ELSE PG_text

\* C6: infer_column_type returns the first match of the table: integer for
\* a lower-cased name that ends in "id", else boolean when it starts with
\* "is" or "has", else timestamp when it contains "date" or "time", else the
\* fixed-point numeric type when it contains a monetary, ratio or percent
\* token, else text.
C6_SpecTable ==
    Returned("infer_column_type")
    => ret.val = C6_TableType(lower(call.column_name))

\* C7: extract_return_structure raises MalformedProjection for a text with
\* SELECT but no FROM after it, and returns None only for a text without
\* SELECT.
C7_MalformedProjection ==
    Returned("extract_return_structure")
    => /\ call.shape = "select_only" => ret.kind = "error"
       /\ ret.kind = "none" => call.shape = "no_select"

\* the return clause the claim asks for: the table of the extracted columns
\* when extract_return_structure returns a column list, void otherwise
C8_Clause(text) ==
    LET clause(shape) == IF shape.kind = "value"
                         THEN <<"R","E","T","U","R","N","S"," ","T","A","B","L","E"," ","(","\n"," "," "," "," ">> \o shape.val \o <<"\n",")">>
                         ELSE <<"R","E","T","U","R","N","S"," ","v","o","i","d">>
    IN clause(extract_return_structure(text))

\* C8: the synthesized return clause is RETURNS TABLE with the extracted
\* columns exactly when extract_return_structure returns a column list, and
\* RETURNS void otherwise: in the request of convert_to_postgres
\* (final_converter.py) and in the text handle_large_file returns.
C8_ReturnClause ==
    /\ (Returned("final_convert_to_postgres") /\ sent # <<>>)
       => sent[1].return_structure = C8_Clause(sent[1].clean_content)
    /\ (Returned("handle_large_file") /\ ret.kind = "value")
       => (contains(<<"R","E","T","U","R","N","S"," ","v","o","i","d">>, ret.val)
           <=> extract_return_structure(call.sql_content).kind # "value")

\* C9: validate_converted_sql reports a missing column if and only if the
\* original has a SELECT ... FROM projection and the name of one of its
\* result columns does not occur in the converted text.
C9_MissingColumnIff ==
    Returned("validate_converted_sql")
    => (startswith(ret.message, <<"M","i","s","s","i","n","g"," ","c","o","l","u","m","n">>)
        <=> /\ call.shape = "select_from"
            /\ \E k \in 1..Len(call.columns) :
                 ~contains(call.columns[k].name, call.converted))

\* C10: for a text without a CREATE PROCEDURE declaration the extraction of
\* schema and name fails with an error and returns no pair of names.
C10_NoDeclarationFound ==
    (/\ pc = "returned"
     /\ call.fn \in {"final_extract_schema_and_name", "batch_extract_schema_and_name"}
     /\ ~call.declares)
    => ret.kind = "error"

\* C11: convert_sql works under the schema and name of the declaration's
\* qualified identifier whenever the text has one, whatever pair the file
\* name encodes; without one it works under the pair of the file name
\* 'schema.name.StoredProcedure.sql'; and when neither gives two non-empty
\* parts it returns None and no request has been sent to the rewrite engine.
C11_NamesOrAbort ==
    LET expected == IF call.header.qualified THEN <<<<"d","b","o">>, <<"G","e","t","F","o","o">>>> ELSE call.pair
    IN (pc \in {"requesting", "returned"} /\ call.fn = "convert_sql") =>
         IF expected = <<>>
         THEN pc = "returned" /\ ret.kind = "none" /\ sent = <<>>
         ELSE /\ call.schema_name = expected[1]
              /\ call.proc_name = expected[2]
              /\ \A k \in 1..Len(sent) :
                   sent[k].schema_name = expected[1] /\ sent[k].proc_name = expected[2]

\* a request went out under the declared names for a file named otherwise
C11_Witness ==
    /\ Returned("convert_sql")
    /\ call.header.qualified
    /\ call.pair = <<<<"r","p","t">>, <<"O","t","h","e","r">>>>
    /\ sent # <<>>
    /\ sent[1].schema_name = <<"d","b","o">>

\* C12: convert_parameters_with_prefix raises nothing and returns a list of
\* the length and order of its input in which a parameter is renamed to
\* 'p_' + name exactly when its name is, letter case ignored, the name of a
\* result column; every other parameter and every type is unchanged.
C12_PrefixOnCollision ==
    Returned("convert_parameters_with_prefix") =>
        /\ ret.kind = "value"
        /\ Len(ret.val) = Len(call.params)
        /\ \A k \in 1..Len(call.params) :
             /\ ret.val[k].type = call.params[k].type
             /\ ret.val[k].name =
                  IF \E c \in 1..Len(call.columns) :
                        lower(call.columns[c].name) = lower(call.params[k].name)
                  THEN <<"p","_">> \o call.params[k].name
                  ELSE call.params[k].name

\* a parameter written in another letter case than the column was renamed
C12_Witness ==
    /\ Returned("convert_parameters_with_prefix")
    /\ \E k \in 1..Len(call.params), c \in 1..Len(call.columns) :
         /\ call.params[k].name # call.columns[c].name
         /\ lower(call.params[k].name) = lower(call.columns[c].name)
         /\ ret.val[k].name = <<"p","_">> \o call.params[k].name

\* C13: in the parameter list convert_to_postgres of final_converter.py
\* renders into the function header, the names are pairwise different when
\* letter case is ignored and none is the name of a result column: the
\* 'p_' renaming creates no new collision.
C13_ResultColumns ==
    IF call.body = S_BODY THEN {<<"u","s","e","r","i","d">>, <<"i","s","a","c","t","i","v","e">>, <<"c","r","e","a","t","e","d","d","a","t","e">>} ELSE {}

C13_NoCollision ==
    (Returned("final_convert_to_postgres") /\ sent # <<>>) =>
        /\ \A i, j \in 1..Len(sent[1].params) :
             i # j => lower(sent[1].params[i].name) # lower(sent[1].params[j].name)
        /\ \A i \in 1..Len(sent[1].params) :
             lower(sent[1].params[i].name) \notin C13_ResultColumns

\* C14: validate_conversion of convert_sql.py never raises, and its verdict
\* is True exactly when the list of deficiencies it collected is empty, for
\* every converted text, procedure name and original text.
C14_ValidIffNoDeficiency ==
    Returned("validate_conversion") =>
        /\ ret.kind = "value"
        /\ ret.val <=> ret.errors = <<>>

C14_Witness ==
    /\ Returned("validate_conversion")
    /\ call.postgres_sql = V_OK
    /\ call.original_sql = O_RPT
    /\ ret.kind = "value" /\ ret.val /\ ret.errors = <<>>

\* C15: each occurrence of a source-dialect-only token in the converted text
\* is one deficiency of validate_conversion: the deficiencies with the
\* message of a token are as many as the occurrences of the tokens with that
\* message.
C15_Occurrences(message, text) ==
    {<<e, i>> \in (1..Len(sql_server_elements)) \X (1..Len(text)) :
        /\ sql_server_elements[e].message = message
        /\ i + Len(sql_server_elements[e].element) - 1 <= Len(text)
        /\ MatchesAt(sql_server_elements[e].element, text, i)}

C15_OnePerOccurrence ==
    Returned("validate_conversion") =>
        \A k \in 1..Len(sql_server_elements) :
            Cardinality({j \in 1..Len(ret.errors) :
                           ret.errors[j] = <<"C","o","n","t","a","i","n","s"," ","S","Q","L"," ","S","e","r","v","e","r"," ","s","y","n","t","a","x",":"," ">>
                                             \o sql_server_elements[k].message})
              = Cardinality(C15_Occurrences(sql_server_elements[k].message,
                                            call.postgres_sql))

\* C16: the dialect-marker and keyword checks of validate_conversion do not
\* depend on letter case: the converted text in lower case and in upper case
\* gets the same marker and keyword deficiencies as the text as written.
C16_MarkerDeficiencies(text) ==
    LET of(errors) == {errors[j] : j \in {k \in 1..Len(errors) :
                          /\ ~startswith(errors[k], <<"M","i","s","s","i","n","g"," ","p","a","r","a","m","e","t","e","r",":"," ">>)
                          /\ ~startswith(errors[k], <<"M","i","s","s","i","n","g"," ","o","r"," ","m","o","d","i","f","i","e","d"," ","t","a","b","l","e"," ","r","e","f","e","r","e","n","c","e",":"," ">>)}}
    IN of(validation_errors(text, call.original_sql, call.tables))

C16_CaseInsensitive ==
    Returned("validate_conversion") =>
        /\ C16_MarkerDeficiencies(lower(call.postgres_sql))
             = C16_MarkerDeficiencies(call.postgres_sql)
        /\ C16_MarkerDeficiencies(upper(call.postgres_sql))
             = C16_MarkerDeficiencies(call.postgres_sql)

\* C17: validate_conversion reports a declared parameter as missing exactly
\* when neither its name nor its ordinal placeholder $i occurs in the
\* converted text.
C17_MissingParameterIff ==
    Returned("validate_conversion") =>
        \A i \in 1..Len(call.declared) :
            (\E j \in 1..Len(ret.errors) :
                ret.errors[j] = <<"M","i","s","s","i","n","g"," ","p","a","r","a","m","e","t","e","r",":"," ">> \o call.declared[i])
            <=> /\ ~contains(call.declared[i], call.postgres_sql)
                /\ ~contains(<<"$">> \o str_of(i), call.postgres_sql)

\* C18: validating or converting a procedure leaves the module-level
\* conversion_failures of convert_sql.py as it was.
C18_NoSideEffects == [][conversion_failures' = conversion_failures]_vars

\* C19: a text convert_sql returns holds no parameter, table or filter of
\* its own making: ProfileID and akwarm.v_AllRatingPerHome occur in it only
\* if they occur in the procedure's source text or in a response of the
\* rewrite engine for this procedure (the returned value is a bare text and
\* carries no fallback flag).
C19_NoFabricatedSql ==
    (Returned("convert_sql") /\ ret.kind = "value") =>
        \A token \in {<<"P","r","o","f","i","l","e","I","D">>, <<"a","k","w","a","r","m",".","v","_","A","l","l","R","a","t","i","n","g","P","e","r","H","o","m","e">>} :
            contains(token, ret.val) =>
                \/ contains(token, call.sql_content)
                \/ \E k \in 1..Len(call.answers) : contains(token, call.answers[k])

\* C20: a converted text that validate_converted_sql rejects in convert_sql
\* is the text returned to the caller, and process_directory does not record
\* its file among the successful conversions (the returned value is a bare
\* text and carries no invalid flag).
C20_RejectedReturnedFlagged ==
    Returned("convert_sql") =>
        /\ \A k \in 1..Len(call.rejected) :
             ret.kind = "value" /\ ret.val = format_converted(call.rejected[k])
        /\ call.rejected # <<>> =>
             \A k \in 1..Len(conversion_results.successful) :
                conversion_results.successful[k].file # call.file_name

\* C21: process_batch of convert_sql.py drops no file silently: when
\* convert_to_postgres returns None for a file (no output file is written
\* then), the file is recorded in conversion_failures.
C21_NoSilentDrop ==
    (Returned("cs_convert_to_postgres") /\ ret.kind = "none") =>
        \E k \in 1..Len(conversion_failures.api_errors) :
            conversion_failures.api_errors[k] = call.procedure_name

\* C23: convert_to_postgres of convert_sql.py sends at most one request per
\* attempt of the retry loop, hence at most max_retries requests for one
\* procedure.
C23_AtMostOncePerAttempt ==
    call.fn = "cs_convert_to_postgres" => Len(sent) <= max_retries

\* C26: once a request of convert_to_postgres of convert_sql.py has brought
\* a response whose text could be read, the function has returned that text:
\* no further request follows and the result is not None.
C26_ReturnsFirstResponse ==
    (call.fn = "cs_convert_to_postgres" /\ pc \in {"posting", "returned"}
       /\ "response" \in DOMAIN call /\ call.response = "text") =>
        pc = "returned" /\ ret.kind = "value"

\* C30: validate_conversion reports a source-dialect token only when the
\* converted text holds it as a token: at some occurrence no word character
\* continues the token on the side where the token has one.
C30_TokenAt(element, text, i) ==
    /\ i + Len(element) - 1 <= Len(text)
    /\ MatchesAt(element, text, i)
    /\ IsWordChar(element[1]) => (i = 1 \/ ~IsWordChar(text[i - 1]))
    /\ IsWordChar(element[Len(element)]) =>
         (i + Len(element) > Len(text) \/ ~IsWordChar(text[i + Len(element)]))

C30_LeakageOnlyForTokens ==
    Returned("validate_conversion") =>
        \A k \in 1..Len(sql_server_elements) :
            (\E j \in 1..Len(ret.errors) :
                ret.errors[j] = <<"C","o","n","t","a","i","n","s"," ","S","Q","L"," ","S","e","r","v","e","r"," ","s","y","n","t","a","x",":"," ">>
                                  \o sql_server_elements[k].message)
            => \E e \in 1..Len(sql_server_elements), i \in 1..Len(call.postgres_sql) :
                  /\ sql_server_elements[e].message = sql_server_elements[k].message
                  /\ C30_TokenAt(sql_server_elements[e].element, call.postgres_sql, i)

\* C27: every file process_directory has gone through is in exactly one of
\* the lists successful and failed, once, so that after the last file
\* len(successful) + len(failed) is the number of files found, whatever
\* read failures, conversion failures and write exceptions occurred.
C27_Entries(file_name) ==
    Cardinality({k \in 1..Len(conversion_results.successful) :
                   conversion_results.successful[k].file = file_name})
    + Cardinality({k \in 1..Len(conversion_results.failed) :
                     conversion_results.failed[k].file = file_name})

C22_MarkerOrRejected ==
    (Returned("convert_sql") /\ ret.kind = "value") =>
        contains(S_DECLARATION_MARKER, call.answers[Len(call.answers)])

\* the requests of the returned or running call of convert_to_postgres of
\* convert_sql_refined.py that are generate requests
C28_Generates == {k \in 1..Len(sent) : sent[k].kind = "generate"}

\* C28: convert_to_postgres of convert_sql_refined.py, for a text of at most
\* 4000 characters, terminates after at most RETRY_MAX attempts, sends at most
\* one generate request in an attempt, and sends it only after the health
\* check of the same attempt answered with status 200.
C28_BoundedRetries ==
    /\ [](call.fn = "refined_convert_to_postgres" =>
            /\ call.attempt <= RETRY_MAX
            /\ \A k \in 1..Len(sent) : sent[k].attempt < RETRY_MAX
            /\ \A k, m \in C28_Generates : sent[k].attempt = sent[m].attempt => k = m
            /\ \A k \in C28_Generates :
                 /\ k > 1
                 /\ sent[k - 1] = [kind |-> "health", attempt |-> sent[k].attempt,
                                   outcome |-> [kind |-> "status", status_code |-> 200]])
    /\ (pc \in {"checking", "generating"}) ~> (pc = "returned")

\* the third attempt passed its health check and its generate request failed
\* after two attempts whose health checks failed: None after RETRY_MAX attempts
C28_Witness ==
    /\ Returned("refined_convert_to_postgres")
    /\ Len(call.sql_content) <= LARGE_FILE_SIZE
    /\ call.attempt = RETRY_MAX
    /\ ret.kind = "none"
    /\ Len(sent) = RETRY_MAX + 1
    /\ sent[1].outcome = [kind |-> "status", status_code |-> 503]
    /\ sent[2].outcome = [kind |-> "error"]
    /\ sent[Len(sent)].kind = "generate"

\* the words of a function definition before its body: the header with its
\* parameter list and the RETURNS TABLE clause
C25_Header(definition) ==
    LET before(mark) == IF mark = 0 THEN definition
                        ELSE SubSeq(definition, 1, mark - 1)
    IN split_ws(before(find(<<"A","S"," ","$","$">>, definition, 1)))

\* C25: when convert_to_postgres of convert_sql_refined.py returns a
\* post-processed response, the parameter list of the header and the columns
\* of the RETURNS TABLE clause are those of the response: the positional
\* substitution has changed the body only.
C25_HeaderUnchanged ==
    (/\ Returned("refined_convert_to_postgres")
     /\ Len(call.sql_content) <= LARGE_FILE_SIZE
     /\ ret.kind = "value")
    => C25_Header(ret.val)
         = C25_Header(extract_sql_body(strip(sent[Len(sent)].outcome.response)))

\* C24: for a source text without a DECLARE statement the definition that
\* handle_large_file builds holds no DECLARE keyword and declares no variable,
\* none being declared by the source.
C24_DeclareOnlyIfDeclared ==
    (/\ Returned("handle_large_file")
     /\ ret.kind = "value"
     /\ ~contains(<<"D","E","C","L","A","R","E">>, upper(call.sql_content)))
    => /\ ~contains(<<"D","E","C","L","A","R","E">>, ret.val)
       /\ ~contains(<<"_","m","o","d","i","f","i","e","d","_","b","y"," ","t","e","x","t",";">>, ret.val)

\* C29: every rule of the rewrite table of handle_large_file takes effect on
\* the text it is written for: the assignment SET @Total = 1 of the source is
\* emitted as _Total := 1, and the table [dbo].[Foo] without its qualifier.
C29_EveryRuleTakesEffect ==
    (/\ Returned("handle_large_file")
     /\ ret.kind = "value"
     /\ contains(S_BLOCK_BODY, call.sql_content))
    => /\ contains(<<"_","T","o","t","a","l"," ",":","="," ","1">>, ret.val)
       /\ contains(<<"F","R","O","M"," ","F","o","o"," ">>, ret.val)

====
